---- MODULE Spec2Model ----
(***************************************************************************)
(* Verification model of the waterfall task orchestrator: interval         *)
(* algebra, schedules, tasks and the Runner convergence loop.              *)
(*                                                                         *)
(* Instants are integers.  A day has DayLen instants; the date of an       *)
(* instant t is t \div DayLen and its time of day is t % DayLen.  One      *)
(* instant stands for the finest duration the code uses (1 ms).            *)
(***************************************************************************)
EXTENDS Integers, Sequences, FiniteSets, Bags, TLC

\* ---------------------------------------------------------------- bounds
DayLen == 3
MaxNow == 8
MaxMsgs == 1

\* ------------------------------------------------------- program constants
WeekLen == 7
MIN_TIME == -40
MAX_TIME == 40
OneDay == DayLen
OneMs == 1

Date(t) == t \div DayLen
Tod(t) == t % DayLen
and_time(date, time) == date * DayLen + time
from_local_datetime(date, time) == and_time(date, time)

Max2(a, b) == IF a >= b THEN a ELSE b
Min2(a, b) == IF a <= b THEN a ELSE b

\* ============================================================== Interval
Interval_new(start, end) ==
    IF start > end THEN [start |-> end, end |-> start]
    ELSE [start |-> start, end |-> end]

Interval_is_empty(i) == i.start = i.end

Interval_contains(i, dt) == i.start < dt /\ dt <= i.end

Interval_has_subset(i, other) == i.start <= other.start /\ other.end <= i.end

is_contiguous(i, other) ==
    \/ (i.start <= other.start /\ other.start <= i.end)
    \/ (other.start <= i.start /\ i.start <= other.end)

Interval_is_disjoint(i, other) == i.end <= other.start \/ other.end <= i.start

Interval_intersection(i, other) ==
    IF Interval_is_disjoint(i, other) THEN Interval_new(i.start, i.start)
    ELSE [start |-> Max2(i.start, other.start), end |-> Min2(i.end, other.end)]

\* derived Ord of struct Interval {start, end}: lexicographic
Interval_lt(a, b) == a.start < b.start \/ (a.start = b.start /\ a.end < b.end)

\* =========================================================== IntervalSet
\* An IntervalSet is the sequence of its member intervals (the Vec).
RECURSIVE coalesce_fold(_, _)
coalesce_fold(acc, rest) ==
    IF rest = <<>> THEN acc
    ELSE LET int == Head(rest) IN
         IF acc = <<>> THEN coalesce_fold(<<int>>, Tail(rest))
         ELSE LET lst == acc[Len(acc)] IN
              IF ~is_contiguous(lst, int)
              THEN coalesce_fold(Append(acc, int), Tail(rest))
              ELSE coalesce_fold([acc EXCEPT ![Len(acc)].end = int.end], Tail(rest))

sort_unstable(s) == SortSeq(s, Interval_lt)

coalesce(s) ==
    CHOOSE out \in
        {coalesce_fold(<<>>, sorted) :
            sorted \in {SelectSeq(sort_unstable(s), LAMBDA x : ~Interval_is_empty(x))}} : TRUE

IntervalSet_from(intervals) == coalesce(intervals)

IntervalSet_start(s) == s[1].start
IntervalSet_end(s) == s[Len(s)].end

IntervalSet_has_subset(s, interval) ==
    \E k \in 1..Len(s) : Interval_has_subset(s[k], interval)

IntervalSet_contains(s, dt) ==
    \E k \in 1..Len(s) : Interval_contains(s[k], dt)

RECURSIVE Flatten(_)
Flatten(ss) == IF ss = <<>> THEN <<>> ELSE Head(ss) \o Flatten(Tail(ss))

intersection(s, other) ==
    coalesce(Flatten([k \in 1..Len(s) |->
        SelectSeq([j \in 1..Len(other) |-> Interval_intersection(s[k], other[j])],
                  LAMBDA x : ~Interval_is_empty(x))]))

RECURSIVE complement_loop(_, _, _)
complement_loop(rest, acc, last_end) ==
    IF rest = <<>>
    THEN IF last_end # MAX_TIME
         THEN Append(acc, Interval_new(last_end, MAX_TIME))
         ELSE acc
    ELSE LET intv == Head(rest) IN
         IF intv.start = MIN_TIME
         THEN complement_loop(Tail(rest), acc, intv.end)
         ELSE complement_loop(Tail(rest),
                              Append(acc, Interval_new(last_end, intv.start)),
                              intv.end)

\* a complement that stops at the last member, without the span up to MAX_TIME
complement_without_tail(s) ==
    IF s = <<>> THEN << Interval_new(MIN_TIME, MAX_TIME) >>
    ELSE SelectSeq(complement_loop(s, <<>>, MIN_TIME), LAMBDA x : x.end # MAX_TIME)

complement(s) ==
    IF s = <<>> THEN << Interval_new(MIN_TIME, MAX_TIME) >>
    ELSE complement_loop(s, <<>>, MIN_TIME)

insert(s, interval) ==
    LET should_coalesce == \E k \in 1..Len(s) : is_contiguous(s[k], interval)
        pushed == Append(s, interval)
    IN IF should_coalesce THEN coalesce(pushed) ELSE pushed

merge(s, other) == coalesce(s \o other)

union(s, other) == coalesce(s \o other)

\* a difference that intersects with `other` itself
difference_without_complement(s, other) == intersection(s, other)

difference(s, other) ==
    CHOOSE out \in {intersection(s, c) : c \in {complement(other)}} : TRUE

subtract(s, other) == difference(s, other)

\* ============================================================== Calendar
\* [mask : set of weekdays 0..6, exclude : set of dates, include : set of dates]
includes(cal, date) ==
    IF date \in cal.exclude THEN FALSE
    ELSE IF date \in cal.include THEN TRUE
    ELSE (date % WeekLen) \in cal.mask

RECURSIVE Calendar_step(_, _, _)
Calendar_step(cal, date, dir) ==
    IF includes(cal, date) THEN date ELSE Calendar_step(cal, date + dir, dir)

RECURSIVE Calendar_offset(_, _, _)
Calendar_offset(cal, date, offset) ==
    IF offset = 0 THEN date
    ELSE LET incr == IF offset < 0 THEN 1 ELSE -1
         IN Calendar_offset(cal, Calendar_step(cal, date + (-1 * incr), -1 * incr),
                            offset + incr)

Calendar_next(cal, date) == Calendar_offset(cal, date, 1)
Calendar_prev(cal, date) == Calendar_offset(cal, date, -1)

\* ============================================================== Schedule
\* [calendar, times : ascending sequence of times of day]
SeqToSet(s) == {s[k] : k \in 1..Len(s)}

RECURSIVE SortedSeqOf(_)
SortedSeqOf(S) ==
    IF S = {} THEN <<>>
    ELSE LET m == CHOOSE x \in S : \A y \in S : x <= y
         IN <<m>> \o SortedSeqOf(S \ {m})

Schedule_new(calendar, times) ==
    [calendar |-> calendar, times |-> SortedSeqOf(SeqToSet(times))]

is_end_time(s, dt) ==
    (\E k \in 1..Len(s.times) : s.times[k] = Tod(dt)) /\ includes(s.calendar, Date(dt))

\* NaiveTime arithmetic wraps around within the day
NaiveTime_add(time, d) == (time + d) % DayLen

\* the first time of day after `time` on `date`, else the first time of the
\* next calendar date
next_time_on(s, date, time) ==
    IF \E k \in 1..Len(s.times) : s.times[k] > time
    THEN from_local_datetime(date,
            s.times[CHOOSE k \in 1..Len(s.times) :
                        /\ s.times[k] > time
                        /\ \A j \in 1..Len(s.times) : s.times[j] > time => k <= j])
    ELSE from_local_datetime(Calendar_next(s.calendar, date), s.times[1])

next_time(s, dt) ==
    next_time_on(s,
        IF includes(s.calendar, Date(dt)) THEN Date(dt)
        ELSE Calendar_next(s.calendar, Date(dt)),
        IF includes(s.calendar, Date(dt)) THEN Tod(dt)
        ELSE NaiveTime_add(s.times[1], -OneMs))

\* the last time of day before `time` on `date`, else the last time of the
\* previous calendar date
prev_time_on(s, date, time) ==
    IF \E k \in 1..Len(s.times) : s.times[k] < time
    THEN from_local_datetime(date,
            s.times[CHOOSE k \in 1..Len(s.times) :
                        /\ s.times[k] < time
                        /\ \A j \in 1..Len(s.times) : s.times[j] < time => k >= j])
    ELSE from_local_datetime(Calendar_prev(s.calendar, date), s.times[Len(s.times)])

prev_time(s, dt) ==
    prev_time_on(s,
        IF includes(s.calendar, Date(dt)) THEN Date(dt)
        ELSE Calendar_prev(s.calendar, Date(dt)),
        IF includes(s.calendar, Date(dt)) THEN Tod(dt)
        ELSE NaiveTime_add(s.times[Len(s.times)], OneMs))

RECURSIVE Schedule_offset(_, _, _)
Schedule_offset(s, dt, offset) ==
    IF offset > 0 THEN Schedule_offset(s, next_time(s, dt), offset - 1)
    ELSE IF offset < 0 THEN Schedule_offset(s, prev_time(s, dt), offset + 1)
    ELSE dt

\* Interval::new(self.prev_time(end), end)
interval_ending(s, end) == Interval_new(prev_time(s, end), end)

Schedule_interval(s, dt, offset) ==
    CHOOSE out \in
        {interval_ending(s, end) :
            end \in {Schedule_offset(s, rt, offset) :
                        rt \in {IF is_end_time(s, dt) THEN dt ELSE next_time(s, dt)}}} : TRUE

align_interval(s, interval) ==
    LET st == IF interval.start = MIN_TIME THEN next_time(s, interval.start)
              ELSE interval.start
        et == IF interval.end = MAX_TIME THEN prev_time(s, interval.end)
              ELSE interval.end
    IN Interval_new(Schedule_interval(s, st, 0).start, Schedule_interval(s, et, 0).end)

\* generate: dates from calendar.prev(st.date) up to (not including) end_date,
\* every time of day in order; prev_time threads through the whole scan.
\* Each step's result is bound as a value before the scan goes on.
RECURSIVE generate_times(_, _, _, _, _, _)
generate_times(s, interval, date, k, prev, out) ==
    IF k > Len(s.times) THEN [prev |-> prev, out |-> out]
    ELSE LET dt == from_local_datetime(date, s.times[k]) IN
         IF dt > interval.start /\ dt <= interval.end
         THEN CHOOSE r \in {generate_times(s, interval, date, k + 1, dt, pushed) :
                               pushed \in {Append(out, Interval_new(prev, dt))}} : TRUE
         ELSE IF interval.end < dt THEN [prev |-> prev, out |-> out]
         ELSE generate_times(s, interval, date, k + 1, dt, out)

\* the loop over the dates; acc = [prev, out] after the dates scanned so far
RECURSIVE generate_dates(_, _, _, _, _)
generate_dates(s, interval, date, end_date, acc) ==
    IF ~(date < end_date) THEN acc.out
    ELSE CHOOSE r \in {generate_dates(s, interval, nxt, end_date, scanned) :
                          nxt \in {Calendar_next(s.calendar, date)},
                          scanned \in {generate_times(s, interval, date, 1, acc.prev,
                                                      acc.out)}} : TRUE

\* a scan that starts on the date of the first interval, not the date before
generate_from_later(s, interval, date, end_date) ==
    generate_dates(s, interval, Calendar_next(s.calendar, date), end_date,
                   [prev |-> from_local_datetime(Calendar_next(s.calendar, date), s.times[1]),
                    out |-> <<>>])

generate_from(s, interval, date, end_date) ==
    generate_dates(s, interval, date, end_date,
                   [prev |-> from_local_datetime(date, s.times[1]), out |-> <<>>])

generate(s, interval) ==
    IF s.times = <<>> THEN <<>>
    ELSE generate_from(s, interval,
            Calendar_prev(s.calendar, Date(Schedule_interval(s, interval.start, 0).start)),
            Calendar_next(s.calendar, Date(Schedule_interval(s, interval.end, 0).end) + 1))

\* =========================================================== Requirement
\* [kind |-> "Offset", resource, offset] or [kind |-> "All" | "Any" | "None", reqs]
RECURSIVE is_satisfied(_, _, _, _)
is_satisfied(req, interval, schedule, available) ==
    CASE req.kind = "Offset" ->
            \E intv \in {Schedule_interval(schedule, interval.end, req.offset)} :
               IF req.resource \in DOMAIN available
               THEN IntervalSet_has_subset(available[req.resource], intv)
               ELSE FALSE
      [] req.kind = "All" ->
            \A k \in 1..Len(req.reqs) : is_satisfied(req.reqs[k], interval, schedule, available)
      [] req.kind = "Any" ->
            \E k \in 1..Len(req.reqs) : is_satisfied(req.reqs[k], interval, schedule, available)
      [] req.kind = "None" ->
            ~(\E k \in 1..Len(req.reqs) : is_satisfied(req.reqs[k], interval, schedule, available))

RECURSIVE Requirement_resources(_)
Requirement_resources(req) ==
    IF req.kind = "Offset" THEN {req.resource}
    ELSE UNION {Requirement_resources(req.reqs[k]) : k \in 1..Len(req.reqs)}

\* ================================================================== Task
\* TaskDefinition: [name, provides, requires, calendar, times, valid_from, valid_to]
\* valid_to is an Option: <<>> for None, <<t>> for Some(t).
\* a to_task that takes valid_from as the start of valid_over
to_task_on_unaligned(def, schedule) ==
    [name |-> def.name,
     provides |-> IF def.provides = {} THEN {def.name} ELSE def.provides,
     requires |-> def.requires,
     schedule |-> schedule,
     valid_over |-> << Interval_new(
         def.valid_from,
         Schedule_interval(schedule,
             IF def.valid_to = <<>> THEN MAX_TIME ELSE def.valid_to[1], 0).start) >>]

to_task_on(def, schedule) ==
    [name |-> def.name,
     provides |-> IF def.provides = {} THEN {def.name} ELSE def.provides,
     requires |-> def.requires,
     schedule |-> schedule,
     valid_over |-> << Interval_new(
         Schedule_interval(schedule, def.valid_from, 0).start,
         Schedule_interval(schedule,
             IF def.valid_to = <<>> THEN MAX_TIME ELSE def.valid_to[1], 0).start) >>]

to_task(def) == to_task_on(def, Schedule_new(def.calendar, def.times))

\* a can_run that lets every action start
can_run_unchecked(task, interval, available) == TRUE

can_run(task, interval, available) ==
    \A k \in 1..Len(task.requires) :
        is_satisfied(task.requires[k], interval, task.schedule, available)

requires_resources(task) ==
    UNION {Requirement_resources(task.requires[k]) : k \in 1..Len(task.requires)}

\* the intervals generated over each member of the required set, clamped
\* to valid_over
generate_over(task, ris) ==
    Flatten([k \in 1..Len(ris) |->
        generate(task.schedule,
                 Interval_new(Max2(ris[k].start, IntervalSet_start(task.valid_over)),
                              Min2(ris[k].end, IntervalSet_end(task.valid_over))))])

\* Result<Vec<Interval>>; unwrap is taken where the result is Ok
Ok(value) == [ok |-> TRUE, value |-> value]
Err == [ok |-> FALSE, value |-> << >>]
unwrap(result) == CHOOSE value \in {result.value} : result.ok

\* reqs: the distinct required sets of the provided resources
generate_for(task, reqs) ==
    IF reqs = {} THEN Ok(<<>>)
    ELSE IF Cardinality(reqs) > 1 THEN Err
    ELSE Ok(generate_over(task, CHOOSE x \in reqs : TRUE))

\* Err when the provided resources are required over diverging windows.
generate_intervals(task, required) ==
    generate_for(task, {IF res \in DOMAIN required
                        THEN intersection(required[res], task.valid_over)
                        ELSE <<>> : res \in task.provides})

\* ======================================================= ResourceInterval
\* A ResourceInterval is a function from its key set to IntervalSets.
ResourceInterval_new == [r \in {} |-> <<>>]

\* per-key difference; keys of the left operand are kept
ResourceInterval_difference(a, b) ==
    [r \in DOMAIN a |-> difference(a[r], IF r \in DOMAIN b THEN b[r] ELSE <<>>)]

\* =============================================================== TaskSet
\* the timeline a task's resources are expected over at `time`
timeline_at(time, cur_intv) ==
    IF time < MAX_TIME
    THEN IF cur_intv.end > time
         THEN << Interval_new(MIN_TIME, cur_intv.start) >>
         ELSE << Interval_new(MIN_TIME, cur_intv.end) >>
    ELSE << Interval_new(MIN_TIME, time) >>

task_timeline(task, time) ==
    intersection(task.valid_over,
                 timeline_at(time, Schedule_interval(task.schedule, time, 0)))

RECURSIVE get_state_fold(_, _, _, _)
get_state_fold(ts, time, k, acc) ==
    IF k > Len(ts) THEN acc
    ELSE get_state_fold(ts, time, k + 1,
            [r \in DOMAIN acc |->
                IF r \in ts[k].provides
                THEN merge(acc[r], task_timeline(ts[k], time))
                ELSE acc[r]])

get_state(ts, time) ==
    get_state_fold(ts, time, 1, [r \in UNION {ts[k].provides : k \in 1..Len(ts)} |-> <<>>])

coverage(ts) == get_state(ts, MAX_TIME)

\* ================================================================ Runner
VARIABLES
    tasks,        \* Runner.tasks : TaskSet (sequence of Task)
    end_state,    \* Runner.end_state
    target,       \* Runner.target
    current,      \* Runner.current
    actions,      \* Runner.actions : sequence of [task, interval, state]
    events,       \* Runner.events : bag of pending futures
    messages,     \* Runner.messages : the inbound mpsc channel
    stay_up,      \* argument / local of Runner::run
    pc,           \* "new" | "running" | "returned" | "panicked"
    now,          \* Utc::now()
    stored,       \* payload of the last StoreState sent to storage
    stores,       \* number of StoreState messages the last runner step sent
    hist,         \* kinds of messages handled so far
    succeeded_ids,\* action ids handled as ActionCompleted{succeeded = true}
    loaded,       \* the state Runner::new started from
    sent,         \* number of control messages sent on the runner channel
    executor_kind,\* which executor answers ExecuteTask: "local" | "agent"
    check_cmds,   \* indices of the tasks whose definition has a `check` command
    up_tasks,     \* per action: the position of its up_task future
    storage_kind, \* which storage serves StorageMessage: "memory" | "redis"
    system_state, \* the storage's map: key -> payload (redis: or list of payloads)
    storage_pc,   \* "running" | "panicked"
    storage_hist, \* what the storage was sent: attempts per key, last state, replies
    max_parallel, \* argument of start_local_executor
    exe_msgs,     \* the local executor's channel: the ExecuteTask jobs not yet received
    running,      \* its FuturesUnordered: job -> "executing" | "finished" (not yet reaped)
    exe_pc,       \* "recv" (awaiting a message) | "next" (awaiting running.next())
    exe_held,     \* the job of the ExecuteTask being handled, 0 when none
    exe_sent,     \* number of ExecuteTask messages sent so far
    targets,      \* the agent executor's Vec<AgentTarget>
    agent_running,\* its FuturesUnordered: submission -> RunningTask and its position
    agent_pc,     \* "recv" | "find" (top of the dispatch loop) | "next" (awaiting running.next())
    agent_task,   \* the resources of the ExecuteTask being dispatched, << >> when none
    agent_n,      \* number of ExecuteTask messages received so far
    reachable,    \* per target: whether the remote agent answers now
    set_a,        \* an IntervalSet under a sequence of operations
    set_op,       \* the operation applied last
    set_prev,     \* << the set before the last operation, its other operand >>
    set_n,        \* number of operations applied
    sched,        \* a Schedule under calls of its methods
    sched_op,     \* the method called last
    sched_arg,    \* its arguments
    sched_out,    \* what it returned
    task_defs,    \* the TaskDefinitions a TaskSet is built from
    task_op,      \* the method called last
    task_arg,     \* its arguments
    task_out,     \* what it returned
    text_op,      \* the function on strings called last
    text_arg,     \* its arguments
    text_out      \* what it returned

runner_vars == << tasks, end_state, target, current, actions, events, messages, stay_up,
                  pc, now, stored, stores, hist, succeeded_ids, loaded, sent >>

up_vars == << executor_kind, check_cmds, up_tasks >>

storage_vars == << storage_kind, system_state, storage_pc, storage_hist >>

local_vars == << max_parallel, exe_msgs, running, exe_pc, exe_held, exe_sent >>

agent_vars == << targets, agent_running, agent_pc, agent_task, agent_n, reachable >>

set_vars == << set_a, set_op, set_prev, set_n >>

sched_vars == << sched, sched_op, sched_arg, sched_out >>

task_vars == << task_defs, task_op, task_arg, task_out >>

text_vars == << text_op, text_arg, text_out >>

\* the variables of the components around the runner
other_vars == << up_vars, storage_vars, local_vars, agent_vars, set_vars, sched_vars,
                 task_vars, text_vars >>

\* the variables around the up_task futures, and around the storage
beside_up == << storage_vars, local_vars, agent_vars, set_vars, sched_vars,
    task_vars, text_vars >>
beside_storage == << runner_vars, up_vars, local_vars, agent_vars, set_vars, sched_vars,
    task_vars, text_vars >>
beside_local == << runner_vars, up_vars, storage_vars, agent_vars, set_vars, sched_vars,
    task_vars, text_vars >>
beside_agent == << runner_vars, up_vars, storage_vars, local_vars, set_vars, sched_vars,
    task_vars, text_vars >>
beside_set == << runner_vars, up_vars, storage_vars, local_vars, agent_vars, sched_vars,
    task_vars, text_vars >>
beside_sched == << runner_vars, up_vars, storage_vars, local_vars, agent_vars, set_vars,
    task_vars, text_vars >>

beside_task == << runner_vars, up_vars, storage_vars, local_vars, agent_vars, set_vars,
    sched_vars, text_vars >>
beside_text == << runner_vars, up_vars, storage_vars, local_vars, agent_vars, set_vars,
    sched_vars, task_vars >>

vars == << runner_vars, other_vars >>

\* ------------------------------------------------------------- the worlds
AllDays == [mask |-> 0..(WeekLen - 1), exclude |-> {}, include |-> {}]
SkipDayOne == [mask |-> 0..(WeekLen - 1), exclude |-> {1}, include |-> {}]

Offset(resource, offset) == [kind |-> "Offset", resource |-> resource, offset |-> offset]

\* task_a provides a daily; task_b requires {a, offset 0} and provides b.
ChainWorld ==
    << [name |-> "task_a", provides |-> {"a"}, requires |-> <<>>,
        calendar |-> AllDays, times |-> <<0>>,
        valid_from |-> and_time(1, 0), valid_to |-> << and_time(3, 0) >>],
       [name |-> "task_b", provides |-> {"b"}, requires |-> << Offset("a", 0) >>,
        calendar |-> AllDays, times |-> <<1>>,
        valid_from |-> and_time(1, 1), valid_to |-> << and_time(2, 1) >>] >>

\* two tasks provide r over separate windows on different schedules; the
\* coarse task skips a day, so one of its intervals spans two days.
SharedWorld ==
    << [name |-> "coarse", provides |-> {"r", "s"}, requires |-> <<>>,
        calendar |-> SkipDayOne, times |-> <<1>>,
        valid_from |-> and_time(0, 1), valid_to |-> << and_time(3, 1) >>],
       [name |-> "fine", provides |-> {"r"}, requires |-> <<>>,
        calendar |-> AllDays, times |-> <<0>>,
        valid_from |-> and_time(4, 0), valid_to |-> << and_time(5, 0) >>] >>

\* a task without valid_to: its coverage never ends.
OpenWorld ==
    << [name |-> "a", provides |-> {}, requires |-> <<>>,
        calendar |-> AllDays, times |-> <<0>>,
        valid_from |-> and_time(4, 0), valid_to |-> <<>>] >>

Worlds == {ChainWorld, SharedWorld, OpenWorld}

taskset(world) == [k \in 1..Len(world) |-> to_task(world[k])]

InitNows == {0, and_time(4, 0)}

\* intervals and resource sets an operator may name in ForceUp / ForceDown
ForceIntervals ==
    { Interval_new(and_time(1, 1), and_time(1, 2)),
      Interval_new(and_time(0, 0), and_time(1, 1)) }

Provided(ts) == UNION {ts[k].provides : k \in 1..Len(ts)}

ForceResources(ts) == SUBSET Provided(ts) \ {{}}

\* a snapshot an earlier run of the same world left in storage: the first
\* interval of the first task is up.
PriorState(ts) ==
    LET first == Schedule_interval(ts[1].schedule, IntervalSet_start(ts[1].valid_over), 1)
    IN [r \in ts[1].provides |-> << first >>]

\* --------------------------------------------------------------- messages
NoInterval == [start |-> 0, end |-> 0]

Msg(type, action_id, resources, interval) ==
    [type |-> type, action_id |-> action_id, resources |-> resources, interval |-> interval]

Tick == Msg("Tick", 0, {}, NoInterval)
PollMessages == Msg("PollMessages", 0, {}, NoInterval)
Stop == Msg("Stop", 0, {}, NoInterval)
RetryAction(action_id) == Msg("RetryAction", action_id, {}, NoInterval)
ForceUp(resources, interval) == Msg("ForceUp", 0, resources, interval)
ForceDown(resources, interval) == Msg("ForceDown", 0, resources, interval)
\* the future spawned by queue_actions; it resolves to ActionCompleted
up_task(action_id) == Msg("up_task", action_id, {}, NoInterval)

RECURSIVE BagOfSeq(_)
BagOfSeq(s) == IF s = <<>> THEN EmptyBag ELSE SetToBag({Head(s)}) (+) BagOfSeq(Tail(s))

RECURSIVE BagOfSet(_)
BagOfSet(S) ==
    IF S = {} THEN EmptyBag
    ELSE LET x == CHOOSE y \in S : TRUE IN SetToBag({x}) (+) BagOfSet(S \ {x})

\* ---------------------------------------------------------- update_target
Action(task, interval, state) == [task |-> task, interval |-> interval, state |-> state]

\* a get_state closure that does not look at current
new_action_state_queued(task, cur, intv) == "Queued"

new_action_state(task, cur, intv) ==
    IF \A res \in task.provides :
          res \in DOMAIN cur /\ IntervalSet_has_subset(cur[res], intv)
    THEN "Completed" ELSE "Queued"

\* one Action per generated interval of the task
task_actions(task, idx, cur, ivs) ==
    [k \in 1..Len(ivs) |-> Action(idx, ivs[k], new_action_state(task, cur, ivs[k]))]

new_actions(ts, cur, new_required) ==
    Flatten([idx \in 1..Len(ts) |->
        task_actions(ts[idx], idx, cur, unwrap(generate_intervals(ts[idx], new_required)))])

\* the actions update_target appends; self.target is read, never written
update_target(ts, cur, tgt, t) ==
    SortSeq(new_actions(ts, cur,
                ResourceInterval_difference(get_state(ts, t + OneDay), tgt)),
            LAMBDA x, y : x.interval.end < y.interval.end)

\* ---------------------------------------------------------- queue_actions
\* a filter that forgets interval.end <= now
eligible_any_time(ts, acts, cur, t) ==
    {i \in 1..Len(acts) :
        /\ acts[i].state = "Queued"
        /\ can_run(ts[acts[i].task], acts[i].interval, cur)}

eligible(ts, acts, cur, t) ==
    {i \in 1..Len(acts) :
        /\ acts[i].state = "Queued"
        /\ acts[i].interval.end <= t
        /\ can_run(ts[acts[i].task], acts[i].interval, cur)}

\* the eligible actions become Running and one up_task future is spawned each
submit(acts, sub) ==
    [actions |-> [i \in 1..Len(acts) |->
                     IF i \in sub THEN [acts[i] EXCEPT !.state = "Running"]
                     ELSE acts[i]],
     spawned |-> BagOfSet({up_task(i) : i \in sub}),
     submitted |-> sub]

queue_actions(ts, acts, cur, t) ==
    CHOOSE q \in {submit(acts, sub) : sub \in {eligible(ts, acts, cur, t)}} : TRUE

is_done(es, cur) == es = cur

\* a loop condition that forgets stay_up
loop_head_batch(su, es, cur) == IF ~is_done(es, cur) THEN "running" ELSE "returned"

\* the loop condition of Runner::run, evaluated after a handler
loop_head(su, es, cur) == IF su \/ ~is_done(es, cur) THEN "running" ELSE "returned"

\* ------------------------------------------------------------------ Init
\* The state after Runner::new: last-known state loaded (or empty), target
\* empty, end_state = coverage, update_target called once.
runner_new(world, n, su, ld) ==
    /\ tasks = taskset(world)
    /\ end_state = coverage(taskset(world))
    /\ target = ResourceInterval_new
    /\ current = ld
    /\ actions = update_target(taskset(world), ld, ResourceInterval_new, n)
    /\ events = EmptyBag
    /\ messages = <<>>
    /\ stay_up = su
    /\ pc = "new"
    /\ now = n
    /\ stored = ld
    /\ stores = 0
    /\ hist = {}
    /\ succeeded_ids = {}
    /\ loaded = ld
    /\ sent = 0

\* the executor side is abstracted: an up_task future resolves to either result
up_abstract ==
    /\ executor_kind = "none"
    /\ check_cmds = {}
    /\ up_tasks = <<>>

\* no storage task in the picture: StoreState is recorded in `stored`
storage_absent ==
    /\ storage_kind = "none"
    /\ system_state = <<>>
    /\ storage_pc = "absent"
    /\ storage_hist = <<>>

\* no local executor in the picture
local_absent ==
    /\ max_parallel = 0
    /\ exe_msgs = << >>
    /\ running = << >>
    /\ exe_pc = "absent"
    /\ exe_held = 0
    /\ exe_sent = 0

\* no agent executor in the picture
agent_absent ==
    /\ targets = << >>
    /\ agent_running = << >>
    /\ agent_pc = "absent"
    /\ agent_task = << >>
    /\ agent_n = 0
    /\ reachable = << >>

\* no IntervalSet under test in the picture
set_absent ==
    /\ set_a = << >>
    /\ set_op = "absent"
    /\ set_prev = << >>
    /\ set_n = 0

\* no Schedule under test in the picture
sched_absent ==
    /\ sched = << >>
    /\ sched_op = "absent"
    /\ sched_arg = << >>
    /\ sched_out = << >>

\* no TaskSet under test in the picture
task_absent ==
    /\ task_defs = << >>
    /\ task_op = "absent"
    /\ task_arg = << >>
    /\ task_out = << >>

\* no function on strings under test in the picture
text_absent ==
    /\ text_op = "absent"
    /\ text_arg = << >>
    /\ text_out = << >>

Init ==
    \E world \in Worlds, n \in InitNows, su \in BOOLEAN :
      \E ld \in {ResourceInterval_new, PriorState(taskset(world))} :
        /\ runner_new(world, n, su, ld)
        /\ up_abstract
        /\ storage_absent
        /\ local_absent
        /\ agent_absent
        /\ set_absent
        /\ sched_absent
        /\ task_absent
        /\ text_absent

\* ------------------------------------------------------------ environment
ControlMessages ==
    {Stop} \cup {ForceUp(rs, iv) : rs \in ForceResources(tasks), iv \in ForceIntervals}
           \cup {ForceDown(rs, iv) : rs \in ForceResources(tasks), iv \in ForceIntervals}

\* a producer sends a control message on the runner channel
Send ==
    /\ pc \in {"new", "running"}
    /\ sent < MaxMsgs
    /\ \E m \in ControlMessages : messages' = Append(messages, m)
    /\ sent' = sent + 1
    /\ UNCHANGED << tasks, end_state, target, current, actions, events, stay_up, pc,
                    now, stored, stores, hist, succeeded_ids, loaded >>
    /\ UNCHANGED other_vars

AdvanceClock ==
    /\ pc \in {"new", "running"}
    /\ now < MaxNow
    /\ now' = now + 1
    /\ UNCHANGED << tasks, end_state, target, current, actions, events, messages,
                    stay_up, pc, stored, stores, hist, succeeded_ids, loaded, sent >>
    /\ UNCHANGED other_vars

\* ------------------------------------------------------------ Runner::run
\* queue_actions as a step: q is its result, pending the other futures
spawn(q, pending) ==
    /\ actions' = q.actions
    /\ events' = pending (+) q.spawned

\* run(): tick(); poll_messages(); then the loop condition
RunStart ==
    /\ pc = "new"
    /\ \E q \in {queue_actions(tasks, actions, current, now)} :
          spawn(q, events (+) BagOfSeq(messages) (+) SetToBag({Tick})
                       (+) SetToBag({PollMessages}))
    /\ messages' = <<>>
    /\ stores' = 0
    /\ pc' = loop_head(stay_up, end_state, current)
    /\ UNCHANGED << tasks, end_state, target, current, stay_up, now, stored, hist,
                    succeeded_ids, loaded, sent >>
    /\ UNCHANGED other_vars

\* Tick arm: tick() drains the channel, queues actions, re-arms the timer
HandleTick ==
    /\ pc = "running"
    /\ BagIn(Tick, events)
    /\ \E q \in {queue_actions(tasks, actions, current, now)} :
          spawn(q, (events (-) SetToBag({Tick})) (+) BagOfSeq(messages)
                       (+) SetToBag({Tick}))
    /\ messages' = <<>>
    /\ stores' = 0
    /\ pc' = loop_head(stay_up, end_state, current)
    /\ UNCHANGED << tasks, end_state, target, current, stay_up, now, stored, hist,
                    succeeded_ids, loaded, sent >>
    /\ UNCHANGED other_vars

\* PollMessages arm: poll_messages() drains the channel, re-arms the timer
HandlePollMessages ==
    /\ pc = "running"
    /\ BagIn(PollMessages, events)
    /\ events' = (events (-) SetToBag({PollMessages})) (+) BagOfSeq(messages)
                     (+) SetToBag({PollMessages})
    /\ messages' = <<>>
    /\ stores' = 0
    /\ pc' = loop_head(stay_up, end_state, current)
    /\ UNCHANGED << tasks, end_state, target, current, actions, stay_up, now, stored,
                    hist, succeeded_ids, loaded, sent >>
    /\ UNCHANGED other_vars

\* complete_task, succeeded branch: the new current
complete_current(cur, task, interval) ==
    [r \in (DOMAIN cur) \cup task.provides |->
        IF r \in task.provides
        THEN insert(IF r \in DOMAIN cur THEN cur[r] ELSE <<>>, interval)
        ELSE cur[r]]

\* complete_task(action_id, true): Completed, current extended to cur1,
\* store_state, queue_actions
succeed(action_id, cur1, pending) ==
    /\ current' = cur1
    /\ stored' = cur1
    /\ stores' = 1
    /\ \E q \in {queue_actions(tasks, [actions EXCEPT ![action_id].state = "Completed"],
                                cur1, now)} :
          spawn(q, pending)
    /\ succeeded_ids' = succeeded_ids \cup {action_id}
    /\ hist' = hist
    /\ pc' = loop_head(stay_up, end_state, cur1)

\* a failed completion that schedules no RetryAction
fail_without_retry(action_id, pending) ==
    /\ actions' = [actions EXCEPT ![action_id].state = "Errored"]
    /\ events' = pending
    /\ stores' = 0
    /\ hist' = hist \cup {"Failed"}
    /\ pc' = loop_head(stay_up, end_state, current)
    /\ UNCHANGED << current, stored, succeeded_ids >>

\* complete_task(action_id, false): Errored, RetryAction after the delay
fail(action_id, pending) ==
    /\ actions' = [actions EXCEPT ![action_id].state = "Errored"]
    /\ events' = pending (+) SetToBag({RetryAction(action_id)})
    /\ stores' = 0
    /\ hist' = hist \cup {"Failed"}
    /\ pc' = loop_head(stay_up, end_state, current)
    /\ UNCHANGED << current, stored, succeeded_ids >>

\* ActionCompleted arm: the up_task future of action_id resolves to
\* ActionCompleted{action_id, succeeded} and complete_task runs
ActionCompleted(action_id, succeeded) ==
    /\ pc = "running"
    /\ BagIn(up_task(action_id), events)
    /\ IF succeeded
       THEN \E cur1 \in {complete_current(current, tasks[actions[action_id].task],
                                           actions[action_id].interval)} :
               succeed(action_id, cur1, events (-) SetToBag({up_task(action_id)}))
       ELSE fail(action_id, events (-) SetToBag({up_task(action_id)}))
    /\ UNCHANGED << tasks, end_state, target, messages, stay_up, now, loaded, sent >>
    /\ UNCHANGED other_vars

HandleActionCompleted ==
    \E action_id \in 1..Len(actions), succeeded \in BOOLEAN :
        ActionCompleted(action_id, succeeded)

\* RetryAction arm
Retry(action_id) ==
    /\ pc = "running"
    /\ BagIn(RetryAction(action_id), events)
    /\ actions' = [actions EXCEPT ![action_id].state = "Queued"]
    /\ events' = events (-) SetToBag({RetryAction(action_id)})
    /\ stores' = 0
    /\ pc' = loop_head(stay_up, end_state, current)
    /\ UNCHANGED << tasks, end_state, target, current, messages, stay_up, now, stored,
                    hist, succeeded_ids, loaded, sent >>
    /\ UNCHANGED other_vars

HandleRetryAction == \E action_id \in 1..Len(actions) : Retry(action_id)

\* Stop arm
HandleStop ==
    /\ pc = "running"
    /\ BagIn(Stop, events)
    /\ events' = events (-) SetToBag({Stop})
    /\ stay_up' = FALSE
    /\ pc' = "returned"
    /\ stores' = 0
    /\ hist' = hist \cup {"Stop"}
    /\ UNCHANGED << tasks, end_state, target, current, actions, messages, now, stored,
                    succeeded_ids, loaded, sent >>
    /\ UNCHANGED other_vars

\* ForceUp / ForceDown arms: the loop over the tasks, in task order
force_panics(ts, cur, resources) ==
    \E k \in 1..Len(ts) :
        ts[k].provides \subseteq resources /\ ~(ts[k].provides \subseteq DOMAIN cur)

\* the body of the loop for one task whose provides are all named:
\* st = [current, actions]; aligned_is the aligned interval as an IntervalSet
force_task(task, tid, st, aligned_is, up) ==
    [current |-> [r \in DOMAIN st.current |->
                    IF r \in task.provides
                    THEN IF up THEN merge(st.current[r], aligned_is)
                         ELSE subtract(st.current[r], aligned_is)
                    ELSE st.current[r]],
     actions |-> [i \in 1..Len(st.actions) |->
                    IF st.actions[i].task = tid
                       /\ IntervalSet_has_subset(aligned_is, st.actions[i].interval)
                    THEN [st.actions[i] EXCEPT !.state = IF up THEN "Completed" ELSE "Queued"]
                    ELSE st.actions[i]]]

RECURSIVE force_loop(_, _, _, _, _, _)
force_loop(ts, tid, st, resources, interval, up) ==
    IF tid > Len(ts) THEN st
    ELSE CHOOSE out \in
            {force_loop(ts, tid + 1, nxt, resources, interval, up) :
                nxt \in {IF ts[tid].provides \subseteq resources
                         THEN force_task(ts[tid], tid, st, aligned_is, up)
                         ELSE st :
                         aligned_is \in {<< align_interval(ts[tid].schedule, interval) >>}}} : TRUE

\* the arm after the loop: store_state and the loop condition
forced(type, r) ==
    /\ current' = r.current
    /\ actions' = r.actions
    /\ stored' = r.current
    /\ stores' = 1
    /\ hist' = hist \cup {type}
    /\ pc' = loop_head(stay_up, end_state, r.current)

\* get_mut(resource).unwrap() panics on a resource without an entry in
\* current; nothing was sent before the panic and the runner is gone.
Force(m) ==
    /\ pc = "running"
    /\ BagIn(m, events)
    /\ events' = events (-) SetToBag({m})
    /\ IF force_panics(tasks, current, m.resources)
       THEN /\ pc' = "panicked"
            /\ stores' = 0
            /\ hist' = hist \cup {"Panic"}
            /\ UNCHANGED << current, actions, stored >>
       ELSE \E r \in {force_loop(tasks, 1, [current |-> current, actions |-> actions],
                                  m.resources, m.interval, m.type = "ForceUp")} :
               forced(m.type, r)
    /\ UNCHANGED << tasks, end_state, target, messages, stay_up, now, succeeded_ids,
                    loaded, sent >>
    /\ UNCHANGED other_vars

HandleForceUp ==
    \E rs \in ForceResources(tasks), iv \in ForceIntervals : Force(ForceUp(rs, iv))

HandleForceDown ==
    \E rs \in ForceResources(tasks), iv \in ForceIntervals : Force(ForceDown(rs, iv))

Next ==
    \/ Send
    \/ AdvanceClock
    \/ RunStart
    \/ HandleTick
    \/ HandlePollMessages
    \/ HandleActionCompleted
    \/ HandleRetryAction
    \/ HandleForceUp
    \/ HandleForceDown
    \/ HandleStop

Spec == Init /\ [][Next]_vars

\* the most actions update_target generates in any of the worlds
MaxActions == 3

\* The runner's scheduling: delayed_event timers fire, FuturesUnordered
\* yields every future that is ready, spawned up_task futures resolve, and
\* the clock advances.  Each pending event is handled while the loop runs.
Fairness ==
    /\ WF_vars(AdvanceClock)
    /\ WF_vars(RunStart)
    /\ WF_vars(HandleTick)
    /\ WF_vars(HandlePollMessages)
    /\ WF_vars(HandleForceUp)
    /\ WF_vars(HandleForceDown)
    /\ WF_vars(HandleStop)
    /\ \A id \in 1..MaxActions : WF_vars(Retry(id))
    /\ \A id \in 1..MaxActions : WF_vars(\E succeeded \in BOOLEAN : ActionCompleted(id, succeeded))

FairSpec == Init /\ [][Next]_vars /\ Fairness

\* =============================================================== up_task
\* The executor side in detail: every up_task future walks the check / up /
\* check protocol, one run_task (ExecuteTask, answer, StoreAttempt) at a time.
Outcomes(kind) ==
    IF kind = "local" THEN {"ok", "failed", "spawn_error"}
    ELSE {"ok", "failed", "unreachable"}

\* what comes back on the response channel: <<attempt>>, or <<>> when the
\* sender is dropped without an answer.  The local executor answers a launch
\* error with TaskAttempt{succeeded: false, ..TaskAttempt::new()}; the agent
\* executor sends only the attempt of a successful submission.
answer(kind, outcome) ==
    IF kind = "agent" /\ outcome = "unreachable" THEN <<>>
    ELSE << [succeeded |-> outcome = "ok", infra_failure |-> FALSE] >>

up_idle == [pc |-> "idle", waiting |-> FALSE, log |-> <<>>, result |-> FALSE]

\* an up_task that re-checks whatever `up` returned
up_next_always_recheck(at, has_check, succeeded) ==
    CASE at = "check" ->
            IF succeeded THEN [pc |-> "done", result |-> TRUE]
            ELSE [pc |-> "up", result |-> FALSE]
      [] at = "up" ->
            IF has_check THEN [pc |-> "recheck", result |-> FALSE]
            ELSE [pc |-> "done", result |-> succeeded]
      [] at = "recheck" -> [pc |-> "done", result |-> succeeded]

\* where up_task goes after the run_task at position `at` returned `succeeded`
up_next(at, has_check, succeeded) ==
    CASE at = "check" ->
            IF succeeded THEN [pc |-> "done", result |-> TRUE]
            ELSE [pc |-> "up", result |-> FALSE]
      [] at = "up" ->
            IF ~succeeded THEN [pc |-> "done", result |-> FALSE]
            ELSE IF has_check THEN [pc |-> "recheck", result |-> FALSE]
            ELSE [pc |-> "done", result |-> TRUE]
      [] at = "recheck" -> [pc |-> "done", result |-> succeeded]

has_check(id) == actions[id].task \in check_cmds

\* the spawned future starts: `if let Some(check_cmd) = check`
UpBegin(id) ==
    /\ BagIn(up_task(id), events)
    /\ up_tasks[id].pc = "idle"
    /\ up_tasks' = [up_tasks EXCEPT ![id] =
                       [pc |-> IF has_check(id) THEN "check" ELSE "up",
                        waiting |-> FALSE, log |-> <<>>, result |-> FALSE]]
    /\ UNCHANGED << runner_vars, executor_kind, check_cmds, beside_up >>

\* run_task sends ExecuteTask and awaits the response
ExecuteTask(id) ==
    /\ up_tasks[id].pc \in {"check", "up", "recheck"}
    /\ ~up_tasks[id].waiting
    /\ up_tasks' = [up_tasks EXCEPT ![id].waiting = TRUE]
    /\ UNCHANGED << runner_vars, executor_kind, check_cmds, beside_up >>

\* the position of the future after the executor's answer a
answered(ut, chk, a) ==
    IF a = <<>>
    THEN [ut EXCEPT !.pc = "panicked", !.waiting = FALSE]
    ELSE [pc |-> up_next(ut.pc, chk, a[1].succeeded).pc,
          waiting |-> FALSE,
          log |-> Append(ut.log, [cmd |-> IF ut.pc = "up" THEN "up" ELSE "check",
                                  attempt |-> a[1]]),
          result |-> up_next(ut.pc, chk, a[1].succeeded).result]

\* the executor answers: run_task stores the attempt and returns its
\* `succeeded`; response_rx.await.unwrap() panics on a dropped sender
TaskAttempt(id, outcome) ==
    /\ up_tasks[id].waiting
    /\ up_tasks' = [up_tasks EXCEPT ![id] =
                       answered(up_tasks[id], has_check(id), answer(executor_kind, outcome))]
    /\ UNCHANGED << runner_vars, executor_kind, check_cmds, beside_up >>

\* the future resolves to ActionCompleted{id, result}: complete_task runs
Deliver(id) ==
    /\ pc = "running"
    /\ BagIn(up_task(id), events)
    /\ up_tasks[id].pc = "done"
    /\ IF up_tasks[id].result
       THEN \E cur1 \in {complete_current(current, tasks[actions[id].task],
                                           actions[id].interval)} :
               succeed(id, cur1, events (-) SetToBag({up_task(id)}))
       ELSE fail(id, events (-) SetToBag({up_task(id)}))
    /\ up_tasks' = [up_tasks EXCEPT ![id].pc = "idle"]
    /\ UNCHANGED << tasks, end_state, target, messages, stay_up, now, loaded, sent,
                    executor_kind, check_cmds, beside_up >>

\* the future panicked: events.next() yields Some(Err(e)) and run() panics
JoinError(id) ==
    /\ pc = "running"
    /\ BagIn(up_task(id), events)
    /\ up_tasks[id].pc = "panicked"
    /\ events' = events (-) SetToBag({up_task(id)})
    /\ pc' = "panicked"
    /\ hist' = hist \cup {"Panic"}
    /\ stores' = 0
    /\ up_tasks' = [up_tasks EXCEPT ![id].pc = "idle"]
    /\ UNCHANGED << tasks, end_state, target, current, actions, messages, stay_up, now,
                    stored, succeeded_ids, loaded, sent, executor_kind, check_cmds,
                    beside_up >>

Executors == {"local", "agent"}

UpInit ==
    \E world \in Worlds, n \in InitNows, su \in BOOLEAN, kind \in Executors :
      \E chk \in {{}, 1..Len(world)} :
        /\ runner_new(world, n, su, ResourceInterval_new)
        /\ executor_kind = kind
        /\ check_cmds = chk
        /\ up_tasks = [i \in 1..Len(actions) |-> up_idle]
        /\ storage_absent
        /\ local_absent
        /\ agent_absent
        /\ set_absent
        /\ sched_absent
        /\ task_absent
        /\ text_absent

HandleUpBegin == \E id \in 1..Len(actions) : UpBegin(id)
HandleExecuteTask == \E id \in 1..Len(actions) : ExecuteTask(id)
HandleTaskAttempt ==
    \E id \in 1..Len(actions), outcome \in Outcomes(executor_kind) : TaskAttempt(id, outcome)
HandleDeliver == \E id \in 1..Len(actions) : Deliver(id)
HandleJoinError == \E id \in 1..Len(actions) : JoinError(id)

UpNext ==
    \/ AdvanceClock
    \/ RunStart
    \/ HandleTick
    \/ HandlePollMessages
    \/ HandleRetryAction
    \/ HandleUpBegin
    \/ HandleExecuteTask
    \/ HandleTaskAttempt
    \/ HandleDeliver
    \/ HandleJoinError

UpSpec == UpInit /\ [][UpNext]_vars

\* =============================================================== storage
\* The storage task alone, fed StorageMessages; the runner is not part of it.
MaxStorageMsgs == 4

runner_absent ==
    /\ tasks = <<>>
    /\ end_state = ResourceInterval_new
    /\ target = ResourceInterval_new
    /\ current = ResourceInterval_new
    /\ actions = <<>>
    /\ events = EmptyBag
    /\ messages = <<>>
    /\ stay_up = FALSE
    /\ pc = "absent"
    /\ now = 0
    /\ stored = ResourceInterval_new
    /\ stores = 0
    /\ hist = {}
    /\ succeeded_ids = {}
    /\ loaded = ResourceInterval_new
    /\ sent = 0

\* serde_json of a ResourceInterval: an object of resource -> intervals
state_to_string(ri) == {<< r, ri[r] >> : r \in DOMAIN ri}
state_from_str(payload) ==
    [r \in {x[1] : x \in payload} |-> (CHOOSE x \in payload : x[1] = r)[2]]

\* serde_json of a TaskAttempt
attempt_to_string(attempt) == << "attempt", attempt.exit_code, attempt.succeeded >>

\* the key of the snapshot: "state" (redis: behind the prefix)
state_key == << "state" >>

\* format!("{}_{}", task_name, interval.end) (redis: behind the prefix)
attempt_tag(task_name, interval) == << task_name, interval.end >>

Put(map, key, value) == [k \in (DOMAIN map) \cup {key} |-> IF k = key THEN value ELSE map[k]]

\* StoreAttempt: memory inserts the payload under the tag; redis RPUSHes it
store_attempt(kind, map, tag, payload) ==
    IF kind = "memory" THEN Put(map, tag, payload)
    ELSE Put(map, tag, IF tag \in DOMAIN map THEN Append(map[tag], payload) ELSE << payload >>)

\* LoadState: <<state>> replied, or <<>> when the storage panics: memory
\* unwraps get("state"); redis falls back to "{}"
load_state(kind, map) ==
    IF state_key \in DOMAIN map THEN << state_from_str(map[state_key]) >>
    ELSE IF kind = "memory" THEN <<>>
    ELSE << state_from_str({}) >>

StorageTasks == {"task_a", "task_b"}
StorageIntervals == {Interval_new(0, and_time(1, 0))}
StorageAttempts == {[exit_code |-> 1, succeeded |-> FALSE], [exit_code |-> 0, succeeded |-> TRUE]}
StorageStates == {ResourceInterval_new, [r \in {"a"} |-> << Interval_new(0, and_time(1, 0)) >>]}

\* what the storage was sent since the last Clear, and what it replied
no_hist == [attempts |-> << >>, state |-> << >>, replies |-> << >>, n |-> 0,
            failed |-> << >>]

StorageInit ==
    /\ runner_absent
    /\ up_abstract
    /\ local_absent
    /\ agent_absent
    /\ set_absent
    /\ sched_absent
    /\ task_absent
    /\ text_absent
    /\ storage_kind \in {"memory", "redis"}
    /\ system_state = << >>
    /\ storage_pc = "running"
    /\ storage_hist = no_hist

storage_receives ==
    /\ storage_pc = "running"
    /\ storage_hist.n < MaxStorageMsgs

Clear ==
    /\ storage_receives
    /\ system_state' = << >>
    /\ storage_hist' = [storage_hist EXCEPT !.attempts = << >>, !.state = << >>,
                                            !.n = @ + 1]
    /\ UNCHANGED << storage_kind, storage_pc, beside_storage >>

StoreAttempt(task_name, interval, attempt) ==
    /\ storage_receives
    /\ system_state' = store_attempt(storage_kind, system_state,
                                     attempt_tag(task_name, interval),
                                     attempt_to_string(attempt))
    /\ storage_hist' =
          [storage_hist EXCEPT
              !.attempts = Put(@, attempt_tag(task_name, interval),
                               IF attempt_tag(task_name, interval) \in DOMAIN @
                               THEN Append(@[attempt_tag(task_name, interval)], attempt)
                               ELSE << attempt >>),
              !.n = @ + 1]
    /\ UNCHANGED << storage_kind, storage_pc, beside_storage >>

StoreState(state) ==
    /\ storage_receives
    /\ system_state' = Put(system_state, state_key, state_to_string(state))
    /\ storage_hist' = [storage_hist EXCEPT !.state = << state >>, !.n = @ + 1]
    /\ UNCHANGED << storage_kind, storage_pc, beside_storage >>

LoadState ==
    /\ storage_receives
    /\ \E reply \in {load_state(storage_kind, system_state)} :
          /\ storage_pc' = IF reply = << >> THEN "panicked" ELSE "running"
          /\ storage_hist' = [storage_hist EXCEPT !.replies = Append(@, reply),
                                                  !.n = @ + 1]
    /\ UNCHANGED << storage_kind, system_state, beside_storage >>

HandleStoreAttempt ==
    \E t \in StorageTasks, iv \in StorageIntervals, a \in StorageAttempts :
        StoreAttempt(t, iv, a)

HandleStoreState == \E st \in StorageStates : StoreState(st)

StorageNext ==
    \/ Clear
    \/ HandleStoreAttempt
    \/ HandleStoreState
    \/ LoadState

StorageSpec == StorageInit /\ [][StorageNext]_vars

\* --- a key-value store whose writes may fail
\* conn.rpush(..).await? / conn.set(..).await? on a write the store refuses:
\* `?` returns the error from start_redis_storage and the spawned task ends
\* in expect(); the memory storage writes to a HashMap, which cannot fail
WriteFails(message) ==
    /\ storage_receives
    /\ storage_kind = "redis"
    /\ storage_pc' = "panicked"
    /\ storage_hist' = [storage_hist EXCEPT !.n = @ + 1, !.failed = Append(@, message)]
    /\ UNCHANGED << storage_kind, system_state, beside_storage >>

\* a StoreAttempt or StoreState whose write fails
StoreAttemptFails ==
    /\ storage_receives
    /\ WriteFails("StoreAttempt")

StoreStateFails ==
    /\ storage_receives
    /\ WriteFails("StoreState")

FailingStoreNext ==
    \/ StorageNext
    \/ StoreAttemptFails
    \/ StoreStateFails

FailingStoreSpec == StorageInit /\ [][FailingStoreNext]_vars

\* ======================================================== local executor
\* start_local_executor alone, fed ExecuteTask messages.  ValidateTask does
\* not touch `running`, and the message sequences here hold no Stop.
MaxJobs == 4
MaxParallel == 2

LocalInit ==
    /\ runner_absent
    /\ up_abstract
    /\ storage_absent
    /\ agent_absent
    /\ set_absent
    /\ sched_absent
    /\ task_absent
    /\ text_absent
    /\ max_parallel \in 0..MaxParallel
    /\ exe_msgs = << >>
    /\ running = << >>
    /\ exe_pc = "recv"
    /\ exe_held = 0
    /\ exe_sent = 0

\* running.len(): reaped futures are gone, finished ones still count
running_len == Cardinality(DOMAIN running)

\* the task invocations that are executing
executing == {j \in DOMAIN running : running[j] = "executing"}

\* futures.push(tokio::spawn(..)): the invocation starts at once
push(futures, job) == Put(futures, job, "executing")

\* a run_task sends ExecuteTask on the unbounded channel
SendExecuteTask ==
    /\ exe_pc # "absent"
    /\ exe_sent < MaxJobs
    /\ exe_sent' = exe_sent + 1
    /\ exe_msgs' = Append(exe_msgs, exe_sent + 1)
    /\ UNCHANGED << max_parallel, running, exe_pc, exe_held, beside_local >>

\* the ExecuteTask arm: `if running.len() == max_parallel` it awaits
\* running.next(), else it pushes the new invocation
LocalExecuteTask ==
    /\ exe_pc = "recv"
    /\ exe_msgs # << >>
    /\ exe_msgs' = Tail(exe_msgs)
    /\ IF running_len = max_parallel
       THEN /\ exe_pc' = "next"
            /\ exe_held' = Head(exe_msgs)
            /\ UNCHANGED running
       ELSE /\ running' = push(running, Head(exe_msgs))
            /\ UNCHANGED << exe_pc, exe_held >>
    /\ UNCHANGED << max_parallel, exe_sent, beside_local >>

\* running.next().await resolves: with None at once on an empty set, else
\* with a finished future, which leaves the set; then the held job is pushed
AwaitNext ==
    /\ exe_pc = "next"
    /\ \E reaped \in IF running = << >> THEN {{}}
                     ELSE {{j} : j \in DOMAIN running \ executing} :
          running' = push([j \in DOMAIN running \ reaped |-> running[j]], exe_held)
    /\ exe_pc' = "recv"
    /\ exe_held' = 0
    /\ UNCHANGED << max_parallel, exe_msgs, exe_sent, beside_local >>

\* a spawned invocation ends: the attempt is sent on its response channel
InvocationEnds(job) ==
    /\ job \in executing
    /\ running' = [running EXCEPT ![job] = "finished"]
    /\ UNCHANGED << max_parallel, exe_msgs, exe_pc, exe_held, exe_sent, beside_local >>

HandleInvocationEnds == \E job \in DOMAIN running : InvocationEnds(job)

LocalNext ==
    \/ SendExecuteTask
    \/ LocalExecuteTask
    \/ AwaitNext
    \/ HandleInvocationEnds

LocalSpec == LocalInit /\ [][LocalNext]_vars

\* ======================================================== agent executor
\* start_agent_executor alone, fed ExecuteTask messages.  TaskResources is a
\* map from resource key to amount.
MaxAgentJobs == 4

can_satisfy(self, requirements) ==
    \A k \in DOMAIN requirements : k \in DOMAIN self /\ self[k] >= requirements[k]

\* called where can_satisfy holds: the Err branch is not taken
TaskResources_sub(self, resources) ==
    [k \in DOMAIN self |-> IF k \in DOMAIN resources THEN self[k] - resources[k] ELSE self[k]]

TaskResources_add(self, resources) ==
    [k \in (DOMAIN self) \cup (DOMAIN resources) |->
        IF k \notin DOMAIN resources THEN self[k]
        ELSE IF k \in DOMAIN self THEN self[k] + resources[k]
        ELSE resources[k]]

Cores(n) == [k \in {"cores"} |-> n]

AgentTarget_new(resources) ==
    [resources |-> resources, current_resources |-> resources, enabled |-> TRUE]

\* GET /resources: an agent that answers reports its capacity, which here is
\* the capacity it was configured with
refresh_resources(self, answers) ==
    IF answers
    THEN [resources |-> self.resources,
          current_resources |-> self.resources,
          enabled |-> TRUE]
    ELSE [self EXCEPT !.enabled = FALSE]

\* the capacities of the configured targets, and what a task may require
AgentWorlds == { << Cores(2) >>, << Cores(2), Cores(1) >> }
Requirements == { Cores(1), Cores(2) }

AgentInit ==
    /\ runner_absent
    /\ up_abstract
    /\ storage_absent
    /\ local_absent
    /\ set_absent
    /\ sched_absent
    /\ task_absent
    /\ text_absent
    /\ \E caps \in AgentWorlds :
          /\ reachable \in [1..Len(caps) -> BOOLEAN]
          /\ targets = [tid \in 1..Len(caps) |->
                           refresh_resources(AgentTarget_new(caps[tid]), reachable[tid])]
    /\ agent_running = << >>
    /\ agent_pc = "recv"
    /\ agent_task = << >>
    /\ agent_n = 0

\* targets.iter_mut().enumerate().find(..): the first enabled target with
\* capacity, 0 when there is none
\* a search that takes the last target with capacity
find_target_last(ts, resources) ==
    IF \E tid \in 1..Len(ts) : ts[tid].enabled /\ can_satisfy(ts[tid].current_resources, resources)
    THEN CHOOSE tid \in 1..Len(ts) :
            /\ ts[tid].enabled /\ can_satisfy(ts[tid].current_resources, resources)
            /\ \A o \in (tid + 1)..Len(ts) :
                  ~(ts[o].enabled /\ can_satisfy(ts[o].current_resources, resources))
    ELSE 0

find_target(ts, resources) ==
    IF \E tid \in 1..Len(ts) : ts[tid].enabled /\ can_satisfy(ts[tid].current_resources, resources)
    THEN CHOOSE tid \in 1..Len(ts) :
            /\ ts[tid].enabled /\ can_satisfy(ts[tid].current_resources, resources)
            /\ \A o \in 1..(tid - 1) :
                  ~(ts[o].enabled /\ can_satisfy(ts[o].current_resources, resources))
    ELSE 0

\* the ExecuteTask arm up to its dispatch loop
AgentExecuteTask(resources) ==
    /\ agent_pc = "recv"
    /\ agent_n < MaxAgentJobs
    /\ agent_n' = agent_n + 1
    /\ agent_task' = resources
    /\ agent_pc' = "find"
    /\ UNCHANGED << targets, agent_running, reachable, beside_agent >>

\* Some((tid, target)): reserve, spawn the submission, leave the loop
Dispatch ==
    /\ agent_pc = "find"
    /\ find_target(targets, agent_task) # 0
    /\ \E tid \in {find_target(targets, agent_task)} :
          /\ targets' = [targets EXCEPT ![tid].current_resources =
                            TaskResources_sub(@, agent_task)]
          /\ agent_running' = Put(agent_running, agent_n,
                                  [target_id |-> tid, resources |-> agent_task,
                                   at |-> "submitting"])
    /\ agent_pc' = "recv"
    /\ agent_task' = << >>
    /\ UNCHANGED << agent_n, reachable, beside_agent >>

\* None: sleep, refresh the disabled targets, then await running.next() if
\* any submission is outstanding
NoCapacity ==
    /\ agent_pc = "find"
    /\ find_target(targets, agent_task) = 0
    /\ targets' = [tid \in 1..Len(targets) |->
                      IF targets[tid].enabled THEN targets[tid]
                      ELSE refresh_resources(targets[tid], reachable[tid])]
    /\ agent_pc' = IF agent_running # << >> THEN "next" ELSE "find"
    /\ UNCHANGED << agent_running, agent_task, agent_n, reachable, beside_agent >>

\* running.next().await yields (tid, resources, submit_ok): a failed
\* submission disables its target; the reservation is added back
Reap(id) ==
    /\ agent_pc = "next"
    /\ id \in DOMAIN agent_running
    /\ agent_running[id].at # "submitting"
    /\ targets' = [targets EXCEPT
                      ![agent_running[id].target_id] =
                          [resources |-> @.resources,
                           current_resources |->
                               TaskResources_add(@.current_resources,
                                                 agent_running[id].resources),
                           enabled |-> IF agent_running[id].at = "failed" THEN FALSE
                                       ELSE @.enabled]]
    /\ agent_running' = [j \in DOMAIN agent_running \ {id} |-> agent_running[j]]
    /\ agent_pc' = "find"
    /\ UNCHANGED << agent_task, agent_n, reachable, beside_agent >>

\* submit_task returns: Ok when the agent answered, Err when it did not
SubmissionEnds(id) ==
    /\ id \in DOMAIN agent_running
    /\ agent_running[id].at = "submitting"
    /\ agent_running' = [agent_running EXCEPT ![id].at =
                            IF reachable[agent_running[id].target_id] THEN "ok"
                            ELSE "failed"]
    /\ UNCHANGED << targets, agent_pc, agent_task, agent_n, reachable, beside_agent >>

\* a remote agent goes away or comes back
TargetFlips(tid) ==
    /\ agent_pc # "absent"
    /\ reachable' = [reachable EXCEPT ![tid] = ~@]
    /\ UNCHANGED << targets, agent_running, agent_pc, agent_task, agent_n, beside_agent >>

HandleAgentExecuteTask == \E resources \in Requirements : AgentExecuteTask(resources)
HandleReap == \E id \in DOMAIN agent_running : Reap(id)
HandleSubmissionEnds == \E id \in DOMAIN agent_running : SubmissionEnds(id)
HandleTargetFlips == \E tid \in DOMAIN reachable : TargetFlips(tid)

AgentNext ==
    \/ HandleAgentExecuteTask
    \/ Dispatch
    \/ NoCapacity
    \/ HandleReap
    \/ HandleSubmissionEnds
    \/ HandleTargetFlips

AgentSpec == AgentInit /\ [][AgentNext]_vars

\* ==================================================== IntervalSet algebra
\* An IntervalSet alone, under sequences of its operations; every other
\* operand is a canonical set.
MaxOps == 2

\* the instants the operands are built from
SetPoints == {MIN_TIME, 0, 1, 2, 3, MAX_TIME}

\* the intervals between the instants of a sorted sequence, taken in pairs
pairs(points) ==
    [k \in 1..(Len(points) \div 2) |-> Interval_new(points[2 * k - 1], points[2 * k])]

\* sorted, non-empty members, no two of them contiguous
CanonicalSets ==
    {pairs(SortedSeqOf(P)) : P \in {Q \in SUBSET SetPoints : Cardinality(Q) % 2 = 0}}

SetIntervals == {Interval_new(a, b) : a \in SetPoints, b \in SetPoints}

SetInit ==
    /\ runner_absent
    /\ up_abstract
    /\ storage_absent
    /\ local_absent
    /\ agent_absent
    /\ sched_absent
    /\ task_absent
    /\ text_absent
    /\ set_a \in CanonicalSets
    /\ set_op = "new"
    /\ set_prev = << >>
    /\ set_n = 0

\* an operation can be applied to set_a
applies ==
    /\ set_op # "absent"
    /\ set_n < MaxOps

\* self.insert(interval)
ApplyInsert ==
    /\ applies
    /\ \E interval \in SetIntervals :
          /\ set_a' = insert(set_a, interval)
          /\ set_prev' = << set_a, << interval >> >>
    /\ set_op' = "insert"
    /\ set_n' = set_n + 1
    /\ UNCHANGED beside_set

\* self.merge(&other)
ApplyMerge ==
    /\ applies
    /\ \E other \in CanonicalSets :
          /\ set_a' = merge(set_a, other)
          /\ set_prev' = << set_a, other >>
    /\ set_op' = "merge"
    /\ set_n' = set_n + 1
    /\ UNCHANGED beside_set

\* self = self.union(&other)
ApplyUnion ==
    /\ applies
    /\ \E other \in CanonicalSets :
          /\ set_a' = union(set_a, other)
          /\ set_prev' = << set_a, other >>
    /\ set_op' = "union"
    /\ set_n' = set_n + 1
    /\ UNCHANGED beside_set

\* self = self.intersection(&other)
ApplyIntersection ==
    /\ applies
    /\ \E other \in CanonicalSets :
          /\ set_a' = intersection(set_a, other)
          /\ set_prev' = << set_a, other >>
    /\ set_op' = "intersection"
    /\ set_n' = set_n + 1
    /\ UNCHANGED beside_set

\* self = self.complement()
ApplyComplement ==
    /\ applies
    /\ set_a' = complement(set_a)
    /\ set_prev' = << set_a, << >> >>
    /\ set_op' = "complement"
    /\ set_n' = set_n + 1
    /\ UNCHANGED beside_set

\* self = self.difference(&other)
ApplyDifference ==
    /\ applies
    /\ \E other \in CanonicalSets :
          /\ set_a' = difference(set_a, other)
          /\ set_prev' = << set_a, other >>
    /\ set_op' = "difference"
    /\ set_n' = set_n + 1
    /\ UNCHANGED beside_set

\* self.subtract(&other)
ApplySubtract ==
    /\ applies
    /\ \E other \in CanonicalSets :
          /\ set_a' = subtract(set_a, other)
          /\ set_prev' = << set_a, other >>
    /\ set_op' = "subtract"
    /\ set_n' = set_n + 1
    /\ UNCHANGED beside_set

SetNext ==
    \/ ApplyInsert
    \/ ApplyMerge
    \/ ApplyUnion
    \/ ApplyIntersection
    \/ ApplyComplement
    \/ ApplyDifference
    \/ ApplySubtract

SetSpec == SetInit /\ [][SetNext]_vars

\* ======================================================= Schedule methods
\* A Schedule alone, under calls of its methods on instants and intervals of
\* a few days.
WorkDays == [mask |-> 1..5, exclude |-> {}, include |-> {}]

SchedCalendars == {AllDays, SkipDayOne, WorkDays}

\* the instants the calls are made on
SchedInstants == and_time(-1, 0)..(and_time(4, 0) - 1)

SchedIntervals ==
    {Interval_new(a, b) : a \in SchedInstants, b \in SchedInstants}

SchedOffsets == {-2, -1, 0, 1, 2}

\* Schedule::new over every set of times of day, the empty one included
Schedules ==
    {Schedule_new(c, SortedSeqOf(T)) :
        c \in SchedCalendars, T \in SUBSET (0..(DayLen - 1))}

SchedInit ==
    /\ runner_absent
    /\ up_abstract
    /\ storage_absent
    /\ local_absent
    /\ agent_absent
    /\ set_absent
    /\ task_absent
    /\ text_absent
    /\ sched \in Schedules
    /\ sched_op = "new"
    /\ sched_arg = << >>
    /\ sched_out = << >>

\* the methods take &self and leave the schedule as it is: one call is made
\* on each schedule
fresh == sched_op = "new"

\* the methods other than generate index self.times: they are called on
\* schedules with at least one time of day
has_times == fresh /\ sched.times # << >>

CallGenerate ==
    /\ fresh
    /\ \E interval \in SchedIntervals :
          /\ sched_arg' = << interval >>
          /\ sched_out' = generate(sched, interval)
    /\ sched_op' = "generate"
    /\ UNCHANGED << sched, beside_sched >>

CallNextTime ==
    /\ has_times
    /\ \E dt \in SchedInstants :
          /\ sched_arg' = << dt >>
          /\ sched_out' = next_time(sched, dt)
    /\ sched_op' = "next_time"
    /\ UNCHANGED << sched, beside_sched >>

CallPrevTime ==
    /\ has_times
    /\ \E dt \in SchedInstants :
          /\ sched_arg' = << dt >>
          /\ sched_out' = prev_time(sched, dt)
    /\ sched_op' = "prev_time"
    /\ UNCHANGED << sched, beside_sched >>

CallOffset ==
    /\ has_times
    /\ \E dt \in SchedInstants, offset \in SchedOffsets :
          /\ sched_arg' = << dt, offset >>
          /\ sched_out' = Schedule_offset(sched, dt, offset)
    /\ sched_op' = "offset"
    /\ UNCHANGED << sched, beside_sched >>

CallInterval ==
    /\ has_times
    /\ \E dt \in SchedInstants, offset \in SchedOffsets :
          /\ sched_arg' = << dt, offset >>
          /\ sched_out' = Schedule_interval(sched, dt, offset)
    /\ sched_op' = "interval"
    /\ UNCHANGED << sched, beside_sched >>

CallAlignInterval ==
    /\ has_times
    /\ \E interval \in SchedIntervals :
          /\ sched_arg' = << interval >>
          /\ sched_out' = align_interval(sched, interval)
    /\ sched_op' = "align_interval"
    /\ UNCHANGED << sched, beside_sched >>

SchedNext ==
    \/ CallGenerate
    \/ CallNextTime
    \/ CallPrevTime
    \/ CallOffset
    \/ CallInterval
    \/ CallAlignInterval

SchedSpec == SchedInit /\ [][SchedNext]_vars

\* ============================================== Task and TaskSet methods
\* TaskSet::validate: Err when a required resource is not a key of the
\* coverage, or when a resource is provided twice over a common interval
\* a scan that remembers only the provider before
RECURSIVE already_provided_by_last(_, _, _)
already_provided_by_last(ts, tids, is) ==
    IF tids = << >> THEN FALSE
    ELSE IF intersection(is, ts[Head(tids)].valid_over) # << >> THEN TRUE
    ELSE already_provided_by_last(ts, Tail(tids), ts[Head(tids)].valid_over)

RECURSIVE already_provided(_, _, _)
already_provided(ts, tids, is) ==
    IF tids = << >> THEN FALSE
    ELSE IF intersection(is, ts[Head(tids)].valid_over) # << >> THEN TRUE
    ELSE already_provided(ts, Tail(tids), merge(is, ts[Head(tids)].valid_over))

\* the indices of the tasks providing res, ascending
providers(ts, res) == SortedSeqOf({idx \in 1..Len(ts) : res \in ts[idx].provides})

validate(ts) ==
    IF \E idx \in 1..Len(ts) :
          \E resource \in requires_resources(ts[idx]) : resource \notin DOMAIN coverage(ts)
    THEN "Err"
    ELSE IF \E res \in Provided(ts) : already_provided(ts, providers(ts, res), << >>)
    THEN "Err"
    ELSE "Ok"

\* Runner::new up to its return: the commands sent to the executor for
\* validation, the LoadState sent to the storage, the actions generated
Runner_new(ts, ld, n) ==
    IF validate(ts) = "Err"
    THEN [result |-> "Err", actions |-> << >>, validated |-> 0, load_state |-> 0]
    ELSE [result |-> "Ok",
          target |-> ResourceInterval_new,
          current |-> ld,
          actions |-> update_target(ts, ld, ResourceInterval_new, n),
          validated |-> Len(ts),
          load_state |-> 1]

\* pub fn update_target, invoked on a Runner at time t: the new actions are
\* appended, every other field is left as it is
Runner_update_target(ts, self, t) ==
    [self EXCEPT !.actions = @ \o update_target(ts, self.current, self.target, t)]

\* invocations of update_target after the one of Runner::new
MaxUpdates == 2

\* --- the task definitions the methods are called on
TaskTimes == {SortedSeqOf(T) : T \in (SUBSET (0..(DayLen - 1))) \ {{}}}
ValidFroms == and_time(0, 0)..and_time(1, 0)
ValidTos == {<< >>} \cup {<< t >> : t \in {and_time(0, 2), and_time(1, 2), and_time(2, 1),
                                          and_time(3, 0)}}
TaskProvides == {{}, {"r"}, {"r", "s"}}

\* one task alone, over every calendar, schedule and validity window
LoneTasks ==
    {<< [name |-> "t1", provides |-> p, requires |-> << >>, calendar |-> c, times |-> tm,
         valid_from |-> vf, valid_to |-> vt] >> :
        p \in TaskProvides, c \in SchedCalendars, tm \in TaskTimes,
        vf \in ValidFroms, vt \in ValidTos}

RequireLists ==
    { << >>,
      << Offset("r", 0) >>,
      << Offset("x", -1) >>,
      << [kind |-> "All",
          reqs |-> << [kind |-> "Any", reqs |-> << Offset("x", 0) >>], Offset("r", 0) >>] >>,
      << [kind |-> "None", reqs |-> << Offset("t1", 0) >>] >> }

\* << valid_from, valid_to >>
Windows ==
    { << and_time(0, 0), << and_time(1, 0) >> >>,
      << and_time(1, 0), << and_time(2, 0) >> >>,
      << and_time(0, 0), << and_time(2, 0) >> >>,
      << and_time(1, 0), << >> >> }

daily(name, p, q, w) ==
    [name |-> name, provides |-> p, requires |-> q, calendar |-> AllDays, times |-> << 0 >>,
     valid_from |-> w[1], valid_to |-> w[2]]

\* two daily tasks with requirements, three daily tasks providing r
TaskPairs ==
    {<< daily("t1", p1, q1, w1), daily("t2", p2, q2, w2) >> :
        p1 \in TaskProvides, p2 \in TaskProvides, q1 \in RequireLists, q2 \in RequireLists,
        w1 \in Windows, w2 \in Windows}

TaskTriples ==
    {<< daily("t1", {"r"}, << >>, w1), daily("t2", {"r"}, << >>, w2),
        daily("t3", {"r"}, << >>, w3) >> : w1 \in Windows, w2 \in Windows, w3 \in Windows}

TaskSetDefs == LoneTasks \cup TaskPairs \cup TaskTriples \cup Worlds

\* the windows a ResourceInterval may require of a task's resource
RequiredWindows(task) ==
    { << >>,
      task.valid_over,
      << Interval_new(MIN_TIME, and_time(1, 1)) >>,
      << Interval_new(and_time(0, 2), and_time(2, 1)) >>,
      << Interval_new(MIN_TIME, and_time(1, 0)), Interval_new(and_time(1, 2), MAX_TIME) >> }

RequiredOf(task) ==
    UNION {[D -> RequiredWindows(task)] : D \in SUBSET task.provides}

TaskInit ==
    /\ runner_absent
    /\ up_abstract
    /\ storage_absent
    /\ local_absent
    /\ agent_absent
    /\ set_absent
    /\ sched_absent
    /\ text_absent
    /\ task_defs \in TaskSetDefs
    /\ task_op = "new"
    /\ task_arg = << >>
    /\ task_out = << >>

\* the methods take &self: one call is made on each task set
uncalled == task_op = "new"

\* generate_intervals reads one task: it is called on the lone tasks
CallGenerateIntervals ==
    /\ uncalled
    /\ Len(task_defs) = 1
    /\ \E idx \in 1..Len(task_defs) :
          \E required \in RequiredOf(to_task(task_defs[idx])) :
             /\ task_arg' = << idx, required >>
             /\ task_out' = generate_intervals(to_task(task_defs[idx]), required)
    /\ task_op' = "generate_intervals"
    /\ UNCHANGED << task_defs, beside_task >>

CallValidate ==
    /\ uncalled
    /\ task_arg' = << >>
    /\ task_out' = validate(taskset(task_defs))
    /\ task_op' = "validate"
    /\ UNCHANGED << task_defs, beside_task >>

CallRunnerNew ==
    /\ uncalled
    /\ \E n \in InitNows :
          /\ task_arg' = << n >>
          /\ task_out' = Runner_new(taskset(task_defs), ResourceInterval_new, n)
    /\ task_op' = "Runner::new"
    /\ UNCHANGED << task_defs, beside_task >>

\* update_target invoked again on the Runner that Runner::new returned, at
\* the same time or later; task_arg holds the times of the invocations
CallUpdateTarget ==
    /\ task_op \in {"Runner::new", "update_target"}
    /\ task_out.result = "Ok"
    /\ Len(task_arg) <= MaxUpdates
    /\ \E t \in {task_arg[Len(task_arg)], task_arg[Len(task_arg)] + OneDay} :
          /\ task_arg' = Append(task_arg, t)
          /\ task_out' = Runner_update_target(taskset(task_defs), task_out, t)
    /\ task_op' = "update_target"
    /\ UNCHANGED << task_defs, beside_task >>

TaskNext ==
    \/ CallGenerateIntervals
    \/ CallValidate
    \/ CallRunnerNew
    \/ CallUpdateTarget

TaskSpec == TaskInit /\ [][TaskNext]_vars

\* ================================================= a two-stage pipeline
\* The runner on a world in which task_b follows task_a interval by interval:
\* both run daily over the same two days, and task_b requires a at offset 0.
PipelineWorld ==
    << [name |-> "task_a", provides |-> {"a"}, requires |-> <<>>,
        calendar |-> AllDays, times |-> <<0>>,
        valid_from |-> and_time(1, 0), valid_to |-> << and_time(3, 0) >>],
       [name |-> "task_b", provides |-> {"b"}, requires |-> << Offset("a", 0) >>,
        calendar |-> AllDays, times |-> <<0>>,
        valid_from |-> and_time(1, 0), valid_to |-> << and_time(3, 0) >>] >>

PipelineInit ==
    \E n \in InitNows, su \in BOOLEAN :
        /\ runner_new(PipelineWorld, n, su, ResourceInterval_new)
        /\ up_abstract
        /\ storage_absent
        /\ local_absent
        /\ agent_absent
        /\ set_absent
        /\ sched_absent
        /\ task_absent
        /\ text_absent

PipelineSpec == PipelineInit /\ [][Next]_vars

\* ============================================ the runner beside its storage
\* The runner with a storage task that may end while the runner runs: it
\* handled a Stop sent by another holder of its sender, or it panicked.  Its
\* receiver is dropped with it.
StorageUp ==
    /\ storage_kind = "memory"
    /\ system_state = << >>
    /\ storage_pc = "running"
    /\ storage_hist = no_hist

PeerInit ==
    \E world \in Worlds, n \in InitNows, su \in BOOLEAN :
        /\ runner_new(world, n, su, ResourceInterval_new)
        /\ up_abstract
        /\ StorageUp
        /\ local_absent
        /\ agent_absent
        /\ set_absent
        /\ sched_absent
        /\ task_absent
        /\ text_absent

StorageEnds ==
    /\ storage_pc = "running"
    /\ storage_pc' = "stopped"
    /\ UNCHANGED << storage_kind, system_state, storage_hist, beside_storage >>

\* a step of the runner; a store_state in it reaches a storage that receives
RunnerStep ==
    /\ Next
    /\ stores' = 1 => storage_pc = "running"

\* self.storage.send(StoreState{..}).unwrap() with the receiver closed:
\* complete_task(action_id, true) panics in store_state and the runner is gone
StoreStateUnwraps(action_id) ==
    /\ pc = "running"
    /\ storage_pc = "stopped"
    /\ BagIn(up_task(action_id), events)
    /\ events' = events (-) SetToBag({up_task(action_id)})
    /\ actions' = [actions EXCEPT ![action_id].state = "Completed"]
    /\ current' = complete_current(current, tasks[actions[action_id].task],
                                   actions[action_id].interval)
    /\ pc' = "panicked"
    /\ stores' = 0
    /\ hist' = hist \cup {"Panic"}
    /\ UNCHANGED << tasks, end_state, target, messages, stay_up, now, stored,
                    succeeded_ids, loaded, sent >>
    /\ UNCHANGED other_vars

HandleStoreStateUnwraps == \E action_id \in 1..Len(actions) : StoreStateUnwraps(action_id)

PeerNext ==
    \/ StorageEnds
    \/ RunnerStep
    \/ HandleStoreStateUnwraps

PeerSpec == PeerInit /\ [][PeerNext]_vars

\* ==================================================== functions on strings
\* A String is the sequence of its chars.  "U" stands for a char of two
\* bytes in UTF-8, every other char takes one byte.
MaxPieces == 3
MaxOutput == 3
MaxBytes == 2

\* str::replace: every non-overlapping match of `from`, from left to right
RECURSIVE replace(_, _, _)
replace(s, from, to) ==
    IF Len(s) < Len(from) THEN s
    ELSE IF SubSeq(s, 1, Len(from)) = from
    THEN to \o replace(SubSeq(s, Len(from) + 1, Len(s)), from, to)
    ELSE << Head(s) >> \o replace(Tail(s), from, to)

\* format!("${{{}}}", key)
placeholder(key) == << "$", "{" >> \o key \o << "}" >>

\* VarMap::apply_to, with `keys` the order in which self.0.iter() yields the
\* entries of the HashMap
RECURSIVE apply_to(_, _, _)
apply_to(self, keys, s) ==
    IF keys = << >> THEN s
    ELSE apply_to(self, Tail(keys), replace(s, placeholder(Head(keys)), self[Head(keys)]))

\* an apply_to that stops after the first entry
apply_to_first(self, keys, s) ==
    IF keys = << >> THEN s
    ELSE replace(s, placeholder(Head(keys)), self[Head(keys)])

\* the orders a HashMap may yield its entries in: all of them
iter(self) ==
    {keys \in [1..Cardinality(DOMAIN self) -> DOMAIN self] :
        \A j, k \in DOMAIN keys : j # k => keys[j] # keys[k]}

\* str::len, in bytes, and chars().count()
RECURSIVE len(_)
len(data) ==
    IF data = << >> THEN 0
    ELSE (IF Head(data) = "U" THEN 2 ELSE 1) + len(Tail(data))

chars_count(data) == Len(data)

\* (a as f64 / b as f64).ceil() as usize: 0/0 is NaN, which casts to 0
ceil_div(a, b) == IF b = 0 THEN 0 ELSE (a + b - 1) \div b

\* chars().take(n) and chars().rev().take(n) reversed
take(data, n) == SubSeq(data, 1, Min2(n, Len(data)))
take_last(data, n) == SubSeq(data, Len(data) - Min2(n, Len(data)) + 1, Len(data))

\* head_tail: Err stands for the panic of the integer division by a
\* charsize of zero
head_tail(data, head, tail) ==
    IF len(data) < head + tail THEN Ok(data)
    ELSE LET charsize == ceil_div(len(data), chars_count(data)) IN
         IF charsize = 0 THEN Err
         ELSE Ok(take(data, head \div charsize) \o << "\n", ".", ".", ".", "\n" >>
                 \o take_last(data, tail \div charsize))

\* a head_tail that keeps head + tail chars of a short input too
head_tail_always(data, head, tail) ==
    LET charsize == ceil_div(len(data), chars_count(data)) IN
    IF charsize = 0 THEN Err
    ELSE Ok(take(data, head \div charsize) \o << "\n", ".", ".", ".", "\n" >>
            \o take_last(data, tail \div charsize))

\* the end of run_task in the local executor: what the TaskAttempt records
\* of the two streams the child has written.  TaskAttempt::default() holds
\* empty strings.
record_output(stdout, stderr, exit_code, output_options) ==
    LET succeeded == exit_code = 0 IN
    IF succeeded /\ output_options.discard_successful
    THEN Ok([output |-> << >>, error |-> << >>, exit_code |-> exit_code])
    ELSE IF ~output_options.truncate
    THEN Ok([output |-> stdout, error |-> stderr, exit_code |-> exit_code])
    ELSE LET out == head_tail(stdout, output_options.head_bytes, output_options.tail_bytes)
         IN IF ~out.ok THEN Err
            ELSE LET err == head_tail(out.value, output_options.head_bytes,
                                      output_options.tail_bytes)
                 IN IF ~err.ok THEN Err
                    ELSE Ok([output |-> out.value, error |-> err.value,
                             exit_code |-> exit_code])

\* --- the strings the functions are called on
RECURSIVE Strings(_, _)
Strings(pieces, n) ==
    IF n = 0 THEN {<< >>}
    ELSE LET shorter == Strings(pieces, n - 1)
         IN shorter \cup {s \o piece : s \in shorter, piece \in pieces}

VarNames == {<< "a" >>, << "b" >>}
VarValues == {<< >>, << "x" >>, << "$" >>, placeholder(<< "a" >>), placeholder(<< "b" >>)}
VarMaps == UNION {[D -> VarValues] : D \in SUBSET VarNames}
Templates ==
    Strings({<< "x" >>, << "$" >>, << "{", "b", "}" >>, placeholder(<< "a" >>),
             placeholder(<< "b" >>), placeholder(<< "c" >>)}, MaxPieces)

Outputs == Strings({<< "a" >>, << "U" >>}, MaxOutput)
OutputOptions ==
    [discard_successful : BOOLEAN, truncate : BOOLEAN, head_bytes : 0..MaxBytes,
     tail_bytes : 0..MaxBytes]
ExitCodes == {0, 1}

TextInit ==
    /\ runner_absent
    /\ up_abstract
    /\ storage_absent
    /\ local_absent
    /\ agent_absent
    /\ set_absent
    /\ sched_absent
    /\ task_absent
    /\ text_op = "new"
    /\ text_arg = << >>
    /\ text_out = << >>

CallApplyTo ==
    /\ text_op = "new"
    /\ \E self \in VarMaps, s \in Templates :
          \E keys \in iter(self) :
             /\ text_arg' = << self, s >>
             /\ text_out' = apply_to(self, keys, s)
    /\ text_op' = "apply_to"
    /\ UNCHANGED beside_text

CallHeadTail ==
    /\ text_op = "new"
    /\ \E data \in Outputs, head \in 0..MaxBytes, tail \in 0..MaxBytes :
          /\ text_arg' = << data, head, tail >>
          /\ text_out' = head_tail(data, head, tail)
    /\ text_op' = "head_tail"
    /\ UNCHANGED beside_text

\* a child process ends and run_task fills in the attempt
TaskFinishes ==
    /\ text_op = "new"
    /\ \E stdout \in Outputs, stderr \in Outputs, exit_code \in ExitCodes,
          output_options \in OutputOptions :
          /\ text_arg' = << stdout, stderr, exit_code, output_options >>
          /\ text_out' = record_output(stdout, stderr, exit_code, output_options)
    /\ text_op' = "run_task"
    /\ UNCHANGED beside_text

TextNext ==
    \/ CallApplyTo
    \/ CallHeadTail
    \/ TaskFinishes

TextSpec == TextInit /\ [][TextNext]_vars

\* ======================================= one resource over separate windows
\* The runner on a world in which two tasks provide r, each over a window of
\* its own: `early` over day 1, `late` over day 3.
WindowsWorld ==
    << [name |-> "early", provides |-> {"r"}, requires |-> <<>>,
        calendar |-> AllDays, times |-> <<0>>,
        valid_from |-> and_time(1, 0), valid_to |-> << and_time(2, 0) >>],
       [name |-> "late", provides |-> {"r"}, requires |-> <<>>,
        calendar |-> AllDays, times |-> <<0>>,
        valid_from |-> and_time(3, 0), valid_to |-> << and_time(4, 0) >>] >>

WindowsInit ==
    \E n \in InitNows, su \in BOOLEAN :
        /\ runner_new(WindowsWorld, n, su, ResourceInterval_new)
        /\ up_abstract
        /\ storage_absent
        /\ local_absent
        /\ agent_absent
        /\ set_absent
        /\ sched_absent
        /\ task_absent
        /\ text_absent

WindowsSpec == WindowsInit /\ [][Next]_vars

\* ============================================ one producer, two messages
\* The runner with a producer that sends ForceDown and then ForceUp for the
\* same resources and interval on the runner channel.  The state loaded at
\* startup has an entry for the resource.
ProducerResources == {"a"}
ProducerInterval == Interval_new(and_time(0, 0), and_time(1, 1))

ProducerInit ==
    \E n \in InitNows, su \in BOOLEAN :
        /\ runner_new(ChainWorld, n, su, PriorState(taskset(ChainWorld)))
        /\ up_abstract
        /\ storage_absent
        /\ local_absent
        /\ agent_absent
        /\ set_absent
        /\ sched_absent
        /\ task_absent
        /\ text_absent

\* tx.send(m) on the unbounded channel, as the k-th message of the producer
SendNext(k, m) ==
    /\ pc \in {"new", "running"}
    /\ sent = k - 1
    /\ messages' = Append(messages, m)
    /\ sent' = k
    /\ UNCHANGED << tasks, end_state, target, current, actions, events, stay_up, pc,
                    now, stored, stores, hist, succeeded_ids, loaded >>
    /\ UNCHANGED other_vars

SendForceDown ==
    /\ sent = 0
    /\ SendNext(1, ForceDown(ProducerResources, ProducerInterval))

SendForceUp ==
    /\ sent = 1
    /\ SendNext(2, ForceUp(ProducerResources, ProducerInterval))

ProducerNext ==
    \/ SendForceDown
    \/ SendForceUp
    \/ AdvanceClock
    \/ RunStart
    \/ HandleTick
    \/ HandlePollMessages
    \/ HandleActionCompleted
    \/ HandleRetryAction
    \/ HandleForceUp
    \/ HandleForceDown

ProducerSpec == ProducerInit /\ [][ProducerNext]_vars

\* ================================================= up_task futures and Stop
\* The runner with its up_task futures in detail and a producer that sends
\* Stop.  The futures are spawned tasks: they go on while the run loop is
\* busy and after it has returned.
SendStop ==
    /\ sent = 0
    /\ SendNext(1, Stop)

StopNext ==
    \/ SendStop
    \/ HandleStop
    \/ AdvanceClock
    \/ RunStart
    \/ HandleTick
    \/ HandlePollMessages
    \/ HandleRetryAction
    \/ HandleUpBegin
    \/ HandleExecuteTask
    \/ HandleTaskAttempt
    \/ HandleDeliver
    \/ HandleJoinError

StopSpec == UpInit /\ [][StopNext]_vars

\* ================================================================ claims
\* the instants an IntervalSet covers, and those of one resource of a state
Covered(s) == {t \in (MIN_TIME + 1)..MAX_TIME : IntervalSet_contains(s, t)}
Cov(ri, r) == IF r \in DOMAIN ri THEN Covered(ri[r]) ELSE {}
Points(iv) == (iv.start + 1)..iv.end

NoForce(h) == h \cap {"ForceUp", "ForceDown"} = {}
NoFailureNoForceDown(h) == h \cap {"Failed", "ForceDown"} = {}
InFlight(id) == CopiesIn(up_task(id), events)

\* ------------------------------------------------------------------- C1
\* every action providing r whose interval overlaps intv is in done
ProvidersDone(r, intv, done) ==
    \A j \in 1..Len(actions) :
        (r \in tasks[actions[j].task].provides
            /\ ~Interval_is_disjoint(actions[j].interval, intv)) => j \in done

\* each Offset requirement of action i: its interval is covered by cur and
\* its providers are done
OffsetsCovered(i, cur, done) ==
    \A k \in 1..Len(tasks[actions[i].task].requires) :
        LET req == tasks[actions[i].task].requires[k]
        IN req.kind = "Offset" =>
             /\ Points(Schedule_interval(tasks[actions[i].task].schedule,
                                         actions[i].interval.end, req.offset))
                    \subseteq Cov(cur, req.resource)
             /\ ProvidersDone(req.resource,
                              Schedule_interval(tasks[actions[i].task].schedule,
                                                actions[i].interval.end, req.offset),
                              done)

\* C1 (dependency ordering): without ForceUp/ForceDown and from an empty
\* current, whenever a step moves an action from Queued to Running, every
\* requirement of its task is satisfied against current at that instant, the
\* interval of each Offset requirement is covered by current[r], and every
\* providing action overlapping it was handled as ActionCompleted{true}.
DependencyOrdering ==
    [][ (loaded = ResourceInterval_new /\ NoForce(hist')) =>
          \A i \in 1..Len(actions) :
              (actions[i].state = "Queued" /\ actions'[i].state = "Running") =>
                  /\ can_run(tasks[actions[i].task], actions[i].interval, current')
                  /\ OffsetsCovered(i, current', succeeded_ids') ]_vars

\* an action with a requirement is Running, in a run from an empty current
\* without ForceUp/ForceDown
DependentStarted ==
    /\ loaded = ResourceInterval_new
    /\ NoForce(hist)
    /\ \E i \in 1..Len(actions) :
          actions[i].state = "Running" /\ tasks[actions[i].task].requires # <<>>

\* ------------------------------------------------------------------- C2
\* C2 (at most one running): at every moment at most one up_task future of
\* any action is in flight, whatever Tick, ActionCompleted, RetryAction,
\* ForceUp and ForceDown messages were handled.
AtMostOneRunning == \A i \in 1..Len(actions) : InFlight(i) <= 1

\* ------------------------------------------------------------------- C3
\* C3 (monotonic current): in a run without a failed completion and without
\* ForceDown, every step leaves the instants covered by current[r], and by
\* the StoreState snapshot, a superset of what they were.
MonotonicCurrent ==
    [][ NoFailureNoForceDown(hist') =>
          \A r \in DOMAIN current :
              /\ Cov(current, r) \subseteq Cov(current', r)
              /\ Cov(stored, r) \subseteq Cov(stored', r) ]_vars

\* ------------------------------------------------------------------- C4
\* C4 (containment chain): in a run without failed executions and without
\* ForceDown, in every state and for every resource, current[r] is covered
\* by target[r], which is covered by end_state[r].
ContainmentChain ==
    NoFailureNoForceDown(hist) =>
        \A r \in DOMAIN current \cup DOMAIN target \cup DOMAIN end_state :
            /\ Cov(current, r) \subseteq Cov(target, r)
            /\ Cov(target, r) \subseteq Cov(end_state, r)

\* ------------------------------------------------------------------- C5
\* every task has a valid_to: no valid_over runs to the last scheduled time
\* before MAX_TIME, where to_task puts the end of a task without valid_to
FiniteEndState ==
    \A k \in 1..Len(tasks) :
        IntervalSet_end(tasks[k].valid_over)
            < Schedule_interval(tasks[k].schedule, MAX_TIME, 0).start

\* C5 (batch termination): with stay_up = FALSE, no failing execution and no
\* control message, run returns after finitely many events if end_state is
\* finite; with an infinite end_state it returns only on Stop.
BatchTermination ==
    /\ [](( ~FiniteEndState /\ pc = "returned") => "Stop" \in hist)
    /\ ((~stay_up /\ FiniteEndState) =>
            <>(pc = "returned" \/ "Failed" \in hist \/ sent > 0))

\* ------------------------------------------------------------------- C6
\* C6 (exit conditions): run returns without a Stop only in batch mode with
\* current == end_state; while it runs in batch mode current # end_state;
\* a handled Stop always returns.  In service mode only Stop returns.
ExitConditions ==
    /\ (pc = "returned" /\ "Stop" \notin hist) =>
            (~stay_up /\ is_done(end_state, current))
    /\ pc = "running" => (stay_up \/ ~is_done(end_state, current))
    /\ "Stop" \in hist => pc = "returned"

\* a service-mode runner still running with current == end_state
ServiceConverged ==
    /\ stay_up
    /\ pc = "running"
    /\ current = end_state
    /\ \E i \in 1..Len(actions) : i \in succeeded_ids

\* ------------------------------------------------------------------- C7
StateOf(id) == IF id <= Len(actions) THEN actions[id].state ELSE "None"
Satisfied(id) ==
    id <= Len(actions) /\ can_run(tasks[actions[id].task], actions[id].interval, current)

\* C7 (retry): handling ActionCompleted{id, false} makes the action Errored
\* and schedules exactly one RetryAction{id}; an Errored action is not
\* submitted; handling RetryAction{id} makes it Queued; and an Errored action
\* is eventually Running again (or Completed) while the runner runs and its
\* requirements are satisfied.
RetryNeverAbandons ==
    /\ [][ \A id \in 1..Len(actions) :
              /\ ActionCompleted(id, FALSE) =>
                    /\ actions'[id].state = "Errored"
                    /\ CopiesIn(RetryAction(id), events')
                          = CopiesIn(RetryAction(id), events) + 1
              /\ actions[id].state = "Errored" =>
                    CopiesIn(up_task(id), events') <= InFlight(id)
              /\ Retry(id) => actions'[id].state = "Queued" ]_vars
    /\ \A id \in 1..MaxActions :
          (StateOf(id) = "Errored")
              ~> \/ pc # "running"
                 \/ StateOf(id) \in {"Running", "Completed"}
                 \/ ~Satisfied(id)

\* a failed action is Errored with its RetryAction pending
ErroredAwaitingRetry ==
    \E id \in 1..Len(actions) :
        /\ actions[id].state = "Errored"
        /\ BagIn(RetryAction(id), events)
        /\ pc = "running"

\* ------------------------------------------------------------------- C8
\* C8 (success handling): after ActionCompleted{id, true} is handled the
\* action is Completed, current[r] covers its interval for every provided r,
\* exactly one StoreState carrying the new current was sent, and every
\* Queued action that is due and satisfied is Running.
SuccessHandling ==
    [][ \A id \in 1..Len(actions) :
          ActionCompleted(id, TRUE) =>
              /\ actions'[id].state = "Completed"
              /\ \A r \in tasks[actions[id].task].provides :
                    Points(actions[id].interval) \subseteq Cov(current', r)
              /\ stores' = 1
              /\ stored' = current'
              /\ \A j \in 1..Len(actions) :
                    (/\ j # id
                     /\ actions[j].state = "Queued"
                     /\ actions[j].interval.end <= now
                     /\ can_run(tasks[actions[j].task], actions[j].interval, current'))
                        => actions'[j].state = "Running" ]_vars

\* ------------------------------------------------------------------- C9
ForceUpMessages ==
    {ForceUp(rs, iv) : rs \in ForceResources(tasks), iv \in ForceIntervals}

\* C9 (ForceUp): handling ForceUp{resources, interval} in any state leaves
\* the runner running, current[r] covering the aligned interval for every
\* resource of every task with provides within resources, every action of
\* such a task inside the aligned interval Completed, and one StoreState sent.
ForceUpCovers ==
    [][ \A m \in ForceUpMessages :
          Force(m) =>
              /\ pc' = "running"
              /\ stores' = 1
              /\ \A tid \in 1..Len(tasks) :
                    tasks[tid].provides \subseteq m.resources =>
                        /\ \A r \in tasks[tid].provides :
                              Points(align_interval(tasks[tid].schedule, m.interval))
                                  \subseteq Cov(current', r)
                        /\ \A i \in 1..Len(actions) :
                              (actions[i].task = tid
                                 /\ Interval_has_subset(
                                        align_interval(tasks[tid].schedule, m.interval),
                                        actions[i].interval))
                                  => actions'[i].state = "Completed" ]_vars

\* ------------------------------------------------------------------ C10
ForceDownOneMessages ==
    {ForceDown({a}, iv) : a \in Provided(tasks), iv \in ForceIntervals}

\* a service-mode runner that has run to completion
Converged == stay_up /\ pc = "running" /\ is_done(end_state, current)

ForceDownPending ==
    \E m \in ForceDownOneMessages :
        BagIn(m, events) \/ \E k \in 1..Len(messages) : messages[k] = m

\* C10 (ForceDown then recovery): on a converged service-mode runner,
\* handling ForceDown{{a}, interval} removes the aligned interval from
\* current[a], sets the matching actions Queued and sends StoreState; then,
\* with no failing execution and no other control message, the runner
\* eventually has every action Completed and current covering again what it
\* covered before.
ForceDownRecovers ==
    /\ [][ \A m \in ForceDownOneMessages :
              (Converged /\ Force(m)) =>
                  /\ stores' = 1
                  /\ stored' = current'
                  /\ \A tid \in 1..Len(tasks) :
                        tasks[tid].provides \subseteq m.resources =>
                            /\ \A r \in tasks[tid].provides :
                                  Cov(current', r) =
                                      Cov(current, r) \
                                        Points(align_interval(tasks[tid].schedule, m.interval))
                            /\ \A i \in 1..Len(actions) :
                                  (actions[i].task = tid
                                     /\ Interval_has_subset(
                                            align_interval(tasks[tid].schedule, m.interval),
                                            actions[i].interval))
                                      => actions'[i].state = "Queued" ]_vars
    /\ (Converged /\ sent = 1 /\ ForceDownPending)
          ~> \/ pc # "running"
             \/ "Failed" \in hist
             \/ /\ "ForceDown" \in hist
                /\ \A i \in 1..Len(actions) : actions[i].state = "Completed"
                /\ \A r \in DOMAIN end_state : Cov(end_state, r) \subseteq Cov(current, r)

\* ------------------------------------------------------------------ C11
\* C11 (no early start): whatever messages were handled before, a step that
\* moves an action to Running, or spawns an up_task future for it, happens at
\* a time now >= action.interval.end, and the action was Queued before.
NoEarlyStart ==
    [][ \A i \in 1..Len(actions) :
          (\/ (actions[i].state # "Running" /\ actions'[i].state = "Running")
           \/ CopiesIn(up_task(i), events') > InFlight(i))
              => /\ actions[i].interval.end <= now
                 /\ actions[i].state = "Queued" ]_vars

\* the clock started before the action was due, and it is Running now
StartedWhenDue ==
    /\ now <= MaxNow
    /\ \E i \in 1..Len(actions) :
          /\ actions[i].state = "Running"
          /\ 0 < actions[i].interval.end
          /\ InFlight(i) = 1

\* ------------------------------------------------------------------ C12
\* the commands a finished up_task has run, as <<cmd, succeeded>> pairs
Ran(id) ==
    [k \in 1..Len(up_tasks[id].log) |->
        << up_tasks[id].log[k].cmd, up_tasks[id].log[k].attempt.succeeded >>]

\* the runs the protocol allows, each with its result
ProtocolRuns(chk) ==
    IF chk
    THEN { [ran |-> << <<"check", TRUE>> >>, result |-> TRUE],
           [ran |-> << <<"check", FALSE>>, <<"up", FALSE>> >>, result |-> FALSE],
           [ran |-> << <<"check", FALSE>>, <<"up", TRUE>>, <<"check", TRUE>> >>,
            result |-> TRUE],
           [ran |-> << <<"check", FALSE>>, <<"up", TRUE>>, <<"check", FALSE>> >>,
            result |-> FALSE] }
    ELSE { [ran |-> << <<"up", TRUE>> >>, result |-> TRUE],
           [ran |-> << <<"up", FALSE>> >>, result |-> FALSE] }

\* C12 (check/up/check protocol): a finished up_task has run check (if
\* present) first and stopped with true when it succeeded, else up, stopping
\* with false when up failed without a re-check, else the re-check whose
\* result it reports (true without check); and delivering a false result,
\* a failed post-check included, makes the action Errored with a RetryAction.
CheckUpCheck ==
    [][ \A id \in 1..Len(actions) :
          /\ up_tasks'[id].pc = "done" =>
                [ran |-> Ran(id)', result |-> up_tasks'[id].result]
                    \in ProtocolRuns(has_check(id))
          /\ Deliver(id) =>
                IF up_tasks[id].result
                THEN actions'[id].state = "Completed"
                ELSE /\ actions'[id].state = "Errored"
                     /\ BagIn(RetryAction(id), events') ]_vars

\* an action is Errored, awaiting its retry, after up succeeded and the
\* post-check failed
PostCheckFailed ==
    \E id \in 1..Len(actions) :
        /\ actions[id].state = "Errored"
        /\ BagIn(RetryAction(id), events)
        /\ Ran(id) = << <<"check", FALSE>>, <<"up", TRUE>>, <<"check", FALSE>> >>

\* ------------------------------------------------------------------ C13
\* the schedule intervals inside task k's valid_over that are due
DueIntervals(k) ==
    {iv \in SeqToSet(generate(tasks[k].schedule, tasks[k].valid_over[1])) : iv.end <= now}

\* an action for (k, iv) exists and has been submitted or is already up
Submitted(k, iv) ==
    \E i \in 1..Len(actions) :
        /\ actions[i].task = k
        /\ actions[i].interval = iv
        /\ actions[i].state \in {"Running", "Completed", "Errored"}

AllDueSubmitted == \A k \in 1..Len(tasks) : \A iv \in DueIntervals(k) : Submitted(k, iv)

\* C13 (continuous target update): in service mode, with no failing
\* execution and no control message, the runner keeps up with the clock:
\* again and again every schedule interval of every task's valid_over that
\* is due has an action that was submitted, intervals ending more than one
\* day after startup included.
ContinuousTarget ==
    []<>( \/ ~stay_up
          \/ pc # "running"
          \/ "Failed" \in hist
          \/ sent > 0
          \/ AllDueSubmitted )

\* ------------------------------------------------------------------ C14
\* the payloads the storage holds under a tag, oldest first
Held(tag) ==
    IF tag \notin DOMAIN system_state THEN << >>
    ELSE IF storage_kind = "memory" THEN << system_state[tag] >>
    ELSE system_state[tag]

\* C14 (attempt log is append-only): in the memory and the key-value storage
\* alike, after any sequence of messages the storage holds, for each key
\* (task_name, interval.end), every attempt stored under it since the last
\* Clear, in arrival order.
AttemptLogAppendOnly ==
    \A tag \in DOMAIN storage_hist.attempts :
        Held(tag) = [k \in 1..Len(storage_hist.attempts[tag]) |->
                        attempt_to_string(storage_hist.attempts[tag][k])]

\* ------------------------------------------------------------------ C15
\* the state of the most recent StoreState, the empty one if there is none
LastStored ==
    IF storage_hist.state = << >> THEN ResourceInterval_new ELSE storage_hist.state[1]

\* C15 (LoadState): in every storage and after every sequence of messages,
\* LoadState replies, with the state of the most recent StoreState handled
\* before it, or the empty ResourceInterval if there is none since the
\* start or the last Clear.
LoadStateReplies ==
    [][ LoadState =>
          /\ storage_hist'.replies[Len(storage_hist'.replies)] = << LastStored >>
          /\ storage_pc' = "running" ]_vars

\* ------------------------------------------------------------------ C16
\* C16 (local executor parallelism cap): for every max_parallel and every
\* sequence of ExecuteTask messages, at most max_parallel task invocations
\* are executing at the same time.
ParallelismCap == Cardinality(executing) <= max_parallel

\* ------------------------------------------------------------------ C17
\* the outcomes in which the task never ran: the child could not be spawned,
\* the remote target could not be reached
InfraOutcomes == {"spawn_error", "unreachable"}

\* C17 (infrastructure failures reported, not lost): an ExecuteTask whose
\* child cannot be spawned or whose target is unreachable is answered with
\* one TaskAttempt that has succeeded = false and infra_failure = true, the
\* up_task goes on to report a failed action, and the runner does not abort
\* on an up_task future.
InfraFailureReported ==
    [][ \A id \in 1..Len(actions) :
          /\ \A outcome \in Outcomes(executor_kind) \cap InfraOutcomes :
                TaskAttempt(id, outcome) =>
                    /\ Len(up_tasks'[id].log) = Len(up_tasks[id].log) + 1
                    /\ up_tasks'[id].log[Len(up_tasks'[id].log)].attempt
                          = [succeeded |-> FALSE, infra_failure |-> TRUE]
                    /\ up_tasks'[id].pc # "panicked"
          /\ ~JoinError(id) ]_vars

\* ------------------------------------------------------------------ C18
\* what the submissions in S hold of resource k
RECURSIVE ReservedBy(_, _)
ReservedBy(S, k) ==
    IF S = {} THEN 0
    ELSE LET id == CHOOSE y \in S : TRUE
         IN (IF k \in DOMAIN agent_running[id].resources
             THEN agent_running[id].resources[k] ELSE 0) + ReservedBy(S \ {id}, k)

\* what the not yet reaped submissions of target tid hold of resource k
Reserved(tid, k) ==
    ReservedBy({id \in DOMAIN agent_running : agent_running[id].target_id = tid}, k)

\* C18 (agent resource accounting): in every reachable state, for each
\* target and resource key, current_resources is resources minus what the
\* target's not yet reaped submissions reserved, and so lies between 0 and
\* resources, across disable, refresh and re-enable.
AgentAccounting ==
    \A tid \in 1..Len(targets) : \A k \in DOMAIN targets[tid].resources :
        /\ k \in DOMAIN targets[tid].current_resources
        /\ targets[tid].current_resources[k]
              = targets[tid].resources[k] - Reserved(tid, k)
        /\ 0 <= targets[tid].current_resources[k]
        /\ targets[tid].current_resources[k] <= targets[tid].resources[k]

\* ------------------------------------------------------------------ C19
\* members sorted by start, non-empty, no two of them touching or overlapping
IsCanonical(s) ==
    /\ \A k \in 1..Len(s) : s[k].start < s[k].end
    /\ \A k \in 1..(Len(s) - 1) : s[k].end < s[k + 1].start

\* C19 (IntervalSet canonical form): after any sequence of insert, merge,
\* union, intersection, complement, difference and subtract calls that starts
\* from canonical sets, the set is sorted by start, its members are non-empty
\* and pairwise non-contiguous, and it equals a canonical set structurally
\* exactly when it covers the same instants.
CanonicalForm ==
    set_n > 0 =>
        /\ IsCanonical(set_a)
        /\ \A other \in CanonicalSets :
              (set_a = other) <=> (Covered(set_a) = Covered(other))

\* ------------------------------------------------------------------ C20
\* C20 (union semantics): for canonical sets A and B, nested members
\* included, union(A, B) and merge cover exactly the instants A or B covers;
\* union is commutative, idempotent and associative, and intersection is
\* commutative.
UnionSemantics ==
    (set_n > 0 /\ IsCanonical(set_prev[1])) =>
        /\ set_op \in {"union", "merge"} =>
              Covered(set_a) = Covered(set_prev[1]) \cup Covered(set_prev[2])
        /\ set_op = "union" =>
              /\ set_a = union(set_prev[2], set_prev[1])
              /\ union(set_prev[1], set_prev[1]) = set_prev[1]
              /\ \A c \in CanonicalSets :
                    union(set_a, c) = union(set_prev[1], union(set_prev[2], c))
        /\ set_op = "intersection" =>
              set_a = intersection(set_prev[2], set_prev[1])

\* ------------------------------------------------------------------ C21
\* the instants of (MIN_TIME, MAX_TIME]
Instants == (MIN_TIME + 1)..MAX_TIME

\* C21 (complement involution): for every canonical set A, the empty and the
\* universal set and sets reaching MIN_TIME or MAX_TIME included, the
\* complement of complement(A) is A, and complement(A) covers exactly the
\* instants of (MIN_TIME, MAX_TIME] that A does not cover.
ComplementInvolution ==
    (set_op = "complement" /\ IsCanonical(set_prev[1])) =>
        /\ complement(set_a) = set_prev[1]
        /\ Covered(set_a) = Instants \ Covered(set_prev[1])

\* the complement was taken of a set with a member starting at MIN_TIME and
\* a member ending at MAX_TIME
ComplementOfEdgeSet ==
    /\ set_op = "complement"
    /\ IsCanonical(set_prev[1])
    /\ Len(set_prev[1]) >= 2
    /\ set_prev[1][1].start = MIN_TIME
    /\ set_prev[1][Len(set_prev[1])].end = MAX_TIME

\* ------------------------------------------------------------------ C22
\* C22 (difference semantics): for canonical sets A and B, difference(A, B)
\* and subtract are intersection(A, complement(B)), canonical, and cover
\* exactly the instants A covers and B does not; difference(A, A) is empty
\* and difference(A, empty) is A.
DifferenceSemantics ==
    (set_op \in {"difference", "subtract"} /\ IsCanonical(set_prev[1])) =>
        /\ set_a = intersection(set_prev[1], complement(set_prev[2]))
        /\ IsCanonical(set_a)
        /\ Covered(set_a) = Covered(set_prev[1]) \ Covered(set_prev[2])
        /\ difference(set_prev[1], set_prev[1]) = << >>
        /\ difference(set_prev[1], << >>) = set_prev[1]

\* a span strictly inside the only member of A was removed: the member is
\* split in two at the span's endpoints
MemberSplit ==
    /\ set_op = "difference"
    /\ Len(set_prev[1]) = 1
    /\ Len(set_prev[2]) = 1
    /\ set_prev[1][1].start < set_prev[2][1].start
    /\ set_prev[2][1].end < set_prev[1][1].end
    /\ set_a = << Interval_new(set_prev[1][1].start, set_prev[2][1].start),
                  Interval_new(set_prev[2][1].end, set_prev[1][1].end) >>

\* ------------------------------------------------------------------ C23
\* the dates around the instants the calls are made on
RefDates == -12..17

\* the schedule endpoints: every (included date, time of day) pair
Endpoints(s) ==
    {and_time(d, s.times[k]) : d \in {x \in RefDates : includes(s.calendar, x)},
                               k \in 1..Len(s.times)}

EndpointAfter(s, t) ==
    CHOOSE e \in Endpoints(s) : e > t /\ \A o \in Endpoints(s) : o > t => e <= o
EndpointBefore(s, t) ==
    CHOOSE e \in Endpoints(s) : e < t /\ \A o \in Endpoints(s) : o < t => o <= e

\* the schedule intervals ending in (interval.start, interval.end], ascending
ScheduleIntervalsIn(s, interval) ==
    LET ends == SortedSeqOf({e \in Endpoints(s) : interval.start < e /\ e <= interval.end})
    IN [k \in 1..Len(ends) |-> [start |-> EndpointBefore(s, ends[k]), end |-> ends[k]]]

\* C23 (Schedule.generate): generate(I) returns, ascending, exactly the
\* schedule intervals whose right endpoint is an (included date, time) pair
\* in (I.start, I.end], each (previous endpoint, endpoint], so consecutive
\* results abut, none is empty and none ends on a date that is not included;
\* with no times of day the result is empty.
GenerateExact ==
    sched_op = "generate" =>
        sched_out = IF sched.times = << >> THEN << >>
                    ELSE ScheduleIntervalsIn(sched, sched_arg[1])

\* generate returned three or more intervals, across a date that is skipped
GeneratedAcrossGap ==
    /\ sched_op = "generate"
    /\ Len(sched_out) >= 3
    /\ \E k \in 1..Len(sched_out) : Date(sched_out[k].end) - Date(sched_out[k].start) >= 2


\* ------------------------------------------------------------------ C24
\* C24 (next_time / prev_time): for every schedule and instant t, on or off
\* the calendar, next_time(t) is the smallest schedule endpoint after t and
\* prev_time(t) the greatest before t; so prev_time(next_time(t)) is t when
\* t is an endpoint and prev_time(t) otherwise, and offset(t, 1) and
\* offset(t, -1) are next_time(t) and prev_time(t).
NextPrevTime ==
    /\ sched_op = "next_time" =>
          /\ sched_out = EndpointAfter(sched, sched_arg[1])
          /\ prev_time(sched, sched_out) =
                IF sched_arg[1] \in Endpoints(sched) THEN sched_arg[1]
                ELSE prev_time(sched, sched_arg[1])
    /\ sched_op = "prev_time" => sched_out = EndpointBefore(sched, sched_arg[1])
    /\ (sched_op = "offset" /\ sched_arg[2] = 1) =>
          sched_out = next_time(sched, sched_arg[1])
    /\ (sched_op = "offset" /\ sched_arg[2] = -1) =>
          sched_out = prev_time(sched, sched_arg[1])

\* ------------------------------------------------------------------ C25
\* C25 (align_interval): for every schedule and every non-empty interval I
\* with finite endpoints, one that starts on a schedule endpoint included,
\* align_interval(I) has both ends on schedule endpoints, contains I, and is
\* the smallest such: every schedule interval inside it meets I.
AlignSmallest ==
    (sched_op = "align_interval" /\ ~Interval_is_empty(sched_arg[1])) =>
        /\ sched_out.start \in Endpoints(sched)
        /\ sched_out.end \in Endpoints(sched)
        /\ Interval_has_subset(sched_out, sched_arg[1])
        /\ \A e \in Endpoints(sched) :
              (sched_out.start < e /\ e <= sched_out.end) =>
                  ~Interval_is_disjoint(Interval_new(EndpointBefore(sched, e), e),
                                        sched_arg[1])

\* ------------------------------------------------------------------ C26
\* (previous endpoint, endpoint] for an endpoint of the schedule
IsScheduleInterval(s, i) ==
    i.end \in Endpoints(s) /\ i.start = EndpointBefore(s, i.end)

\* the task generate_intervals was called on, and the windows it was asked for
CalledTask == to_task(task_defs[task_arg[1]])
Clipped ==
    {IF res \in DOMAIN task_arg[2]
     THEN intersection(task_arg[2][res], CalledTask.valid_over)
     ELSE << >> : res \in CalledTask.provides}

RECURSIVE NamesResource(_, _)
NamesResource(req, resource) ==
    IF req.kind = "Offset" THEN req.resource = resource
    ELSE \E k \in 1..Len(req.reqs) : NamesResource(req.reqs[k], resource)

\* the resources task k of the set under test provides, and its validOver
ProvidedBy(k) == to_task(task_defs[k]).provides
ValidOver(k) == to_task(task_defs[k]).valid_over

\* (a) some task names, in an Offset requirement, a resource no task provides
UnprovidedRequirement ==
    \E k \in 1..Len(task_defs) : \E j \in 1..Len(task_defs[k].requires) :
        \E resource \in {"r", "s", "x", "t1", "t2", "t3", "a", "b"} :
            /\ NamesResource(task_defs[k].requires[j], resource)
            /\ \A p \in 1..Len(task_defs) : resource \notin ProvidedBy(p)

\* (b) two distinct tasks provide a common resource over a common instant
ProvidedTwice ==
    \E i, j \in 1..Len(task_defs) :
        /\ i # j
        /\ ProvidedBy(i) \cap ProvidedBy(j) # {}
        /\ Covered(ValidOver(i)) \cap Covered(ValidOver(j)) # {}

\* C30 (TaskSet.validate): validate returns an error if and only if (a) some
\* task has an Offset requirement, at any depth of all/any/none, naming a
\* resource that no task provides, or (b) two distinct tasks provide a common
\* resource and their validOver sets intersect in a non-empty interval;
\* otherwise it returns Ok; and when validate fails Runner::new fails having
\* generated no action and sent nothing to the executor or the storage.
ValidateIff ==
    /\ task_op = "validate" =>
          /\ task_out \in {"Ok", "Err"}
          /\ (task_out = "Err") <=> (UnprovidedRequirement \/ ProvidedTwice)
    /\ (task_op = "Runner::new" /\ (UnprovidedRequirement \/ ProvidedTwice)) =>
          /\ task_out.result = "Err"
          /\ task_out.actions = << >>
          /\ task_out.validated = 0
          /\ task_out.load_state = 0

\* Runner::new failed on three tasks of which the third overlaps the first
\* and not the second; no requirement is unprovided
RunnerNewRejected ==
    /\ task_op = "Runner::new"
    /\ task_out.result = "Err"
    /\ Len(task_defs) = 3
    /\ ~UnprovidedRequirement
    /\ Covered(ValidOver(1)) \cap Covered(ValidOver(2)) = {}
    /\ Covered(ValidOver(2)) \cap Covered(ValidOver(3)) = {}
    /\ Covered(ValidOver(1)) \cap Covered(ValidOver(3)) # {}

\* ------------------------------------------------------------------ C27
\* the actions the last invocation of update_target appended
LastGenerated ==
    Len(task_out.actions)
        - Len(update_target(taskset(task_defs), task_out.current, task_out.target,
                            task_arg[1]))

\* C27 (no duplicate actions): after any number of update_target
\* invocations the action list holds at most one action per (task, interval),
\* and the prior target is the target of the invocation before, so that an
\* invocation at the time of the one before it appends no action.
NoDuplicateActions ==
    task_op = "update_target" =>
        /\ \A i, j \in 1..Len(task_out.actions) :
              (/\ task_out.actions[i].task = task_out.actions[j].task
               /\ task_out.actions[i].interval = task_out.actions[j].interval) => i = j
        /\ (Len(task_arg) = 2 /\ task_arg[2] = task_arg[1]) => LastGenerated = 0

\* ------------------------------------------------------------------ C28
\* the state loaded at startup covers the interval of action i for every
\* resource its task provides
CoveredAtCreation(i) ==
    \A res \in tasks[actions[i].task].provides :
        Points(actions[i].interval) \subseteq Cov(loaded, res)

\* C28 (already-present resources are not rebuilt): an action generated while
\* current, as loaded at startup, covers its interval for every resource its
\* task provides is created Completed, every other action Queued; and an
\* action created Completed is not submitted unless a ForceDown was handled
\* before.
PresentNotRebuilt ==
    /\ \A i \in 1..Len(actions) :
          actions[i].state = IF CoveredAtCreation(i) THEN "Completed" ELSE "Queued"
    /\ [][ \A i \in 1..Len(actions) :
              (/\ CoveredAtCreation(i)
               /\ \/ actions'[i].state = "Running" /\ actions[i].state # "Running"
                  \/ CopiesIn(up_task(i), events') > CopiesIn(up_task(i), events))
                  => "ForceDown" \in hist' ]_vars

\* an action created Completed is still Completed, untouched by ForceDown,
\* while a later action of its task has been submitted
PresentWhileOthersRun ==
    \E i, j \in 1..Len(actions) :
        /\ CoveredAtCreation(i)
        /\ actions[i].state = "Completed"
        /\ "ForceDown" \notin hist
        /\ actions[j].task = actions[i].task
        /\ ~CoveredAtCreation(j)
        /\ actions[j].state \in {"Running", "Completed"}

\* ------------------------------------------------------------------ C29
\* action id is Queued before the step and Running after it
Starts(id) == actions[id].state = "Queued" /\ actions'[id].state = "Running"

\* C29 (start order within a task): of two actions of one task the one with
\* the earlier interval end is moved to Running no later than the other,
\* whatever the order in which the actions of other tasks complete.  Stated
\* for the runs from an empty state in which nothing has failed and nothing
\* was forced, where an action that was submitted is Running or Completed.
StartOrder ==
    [][ (NoForce(hist') /\ "Failed" \notin hist') =>
            \A i, j \in 1..Len(actions) :
                (/\ actions[i].task = actions[j].task
                 /\ actions[i].interval.end < actions[j].interval.end
                 /\ Starts(j))
                    => actions'[i].state \in {"Running", "Completed"} ]_vars

\* ------------------------------------------------------------------ C31
\* C31 (storage write failures are non-fatal): after a StoreState or
\* StoreAttempt whose write to the key-value store failed, the storage
\* component is still receiving: later stores and LoadState are processed.
WriteFailureNonFatal ==
    storage_hist.failed # << >> => storage_pc = "running"

\* ------------------------------------------------------------------ C32
\* the step handles the ActionCompleted of some up_task future
CompletionHandled ==
    \E id \in 1..Len(actions) : CopiesIn(up_task(id), events') < CopiesIn(up_task(id), events)

\* C32 (send to a stopped peer is a no-op): with the storage already shut
\* down, a step of the run loop that handles a completion, and with it sends
\* StoreState to the closed receiver, does not abort the loop.
SendToStoppedIgnored ==
    [][ (storage_pc = "stopped" /\ pc = "running" /\ CompletionHandled)
            => pc' # "panicked" ]_vars

\* ------------------------------------------------------------------ C33
\* target tid is enabled and has room for the resources, before the step
Fits(tid, resources) ==
    targets[tid].enabled /\ can_satisfy(targets[tid].current_resources, resources)

\* the step pushes submission id onto `running`
Dispatched(id) == id \notin DOMAIN agent_running /\ id \in DOMAIN agent_running'

\* the step is the None arm, which refreshes the disabled targets
Refreshing ==
    /\ agent_pc = "find"
    /\ \A tid \in 1..Len(targets) : ~Fits(tid, agent_task)
    /\ reachable' = reachable
    /\ agent_running' = agent_running

\* C33 (agent dispatch and failover): a task is dispatched to the first
\* target in list order that is enabled and whose current_resources satisfy
\* its requirements; a failed submission reaped from `running`, or a failed
\* refresh, leaves its target disabled; a disabled target gets no task and
\* becomes enabled only by a refresh that succeeds, which always enables it.
DispatchAndFailover ==
    [][ /\ \A id \in 1..MaxAgentJobs :
              Dispatched(id) =>
                  /\ Fits(agent_running'[id].target_id, agent_running'[id].resources)
                  /\ \A o \in 1..(agent_running'[id].target_id - 1) :
                        ~Fits(o, agent_running'[id].resources)
        /\ \A id \in DOMAIN agent_running :
              (id \notin DOMAIN agent_running' /\ agent_running[id].at = "failed")
                  => ~targets'[agent_running[id].target_id].enabled
        /\ \A tid \in 1..Len(targets) :
              /\ (~targets[tid].enabled /\ targets'[tid].enabled)
                    => (Refreshing /\ reachable[tid])
              /\ (~targets[tid].enabled /\ Refreshing)
                    => (targets'[tid].enabled <=> reachable[tid]) ]_vars

\* two submissions are in flight on two targets, the first of which was
\* skipped for the second task because it had no room left
ParallelOnTwoTargets ==
    \E i, j \in DOMAIN agent_running :
        /\ i < j
        /\ agent_running[i].at = "submitting"
        /\ agent_running[j].at = "submitting"
        /\ agent_running[i].target_id = 1
        /\ agent_running[j].target_id = 2
        /\ targets[1].enabled

\* ------------------------------------------------------------------ C34
\* whether s starts with the placeholder of key
StartsWith(s, key) ==
    /\ Len(s) >= Len(placeholder(key))
    /\ SubSeq(s, 1, Len(placeholder(key))) = placeholder(key)

\* one pass over s: each ${name} with name in the map gives its value, which
\* is not scanned again; every other char is kept
RECURSIVE Interpolated(_, _)
Interpolated(self, s) ==
    IF s = << >> THEN << >>
    ELSE IF \E key \in DOMAIN self : StartsWith(s, key)
    THEN LET key == CHOOSE key \in DOMAIN self : StartsWith(s, key)
         IN self[key] \o Interpolated(self, SubSeq(s, Len(placeholder(key)) + 1, Len(s)))
    ELSE << Head(s) >> \o Interpolated(self, Tail(s))

\* C34 (VarMap.apply_to is order-independent): for every VarMap, also one
\* where the value of a variable holds the placeholder of another, and every
\* input string, apply_to gives the same result for every iteration order of
\* the map, and that result is the one pass over the input: every ${name}
\* with name in the map replaced by its value, replaced text not scanned
\* again, every other ${name} left as it is.
ApplyToOrderIndependent ==
    text_op = "apply_to" =>
        /\ \A keys \in iter(text_arg[1]) :
              apply_to(text_arg[1], keys, text_arg[2]) = text_out
        /\ text_out = Interpolated(text_arg[1], text_arg[2])

\* ------------------------------------------------------------------ C35
\* head_tail as the claim words it, on a stream of one-byte chars
HeadTailOf(data, head, tail) ==
    IF Len(data) < head + tail THEN data
    ELSE take(data, head) \o << "\n", ".", ".", ".", "\n" >> \o take_last(data, tail)

\* C35 (output policy per stream): for every finished local task, with
\* discardSuccessful set and exit code zero the recorded stdout and stderr
\* are both empty; otherwise with truncate set the recorded stdout is
\* head_tail(stdout, head, tail) and the recorded stderr is
\* head_tail(stderr, head, tail), each stream on its own; with truncate unset
\* both streams are recorded unchanged.  Stated for streams of one-byte chars
\* and head + tail > 0.
OutputPolicyPerStream ==
    (/\ text_op = "run_task"
     /\ \A k \in 1..Len(text_arg[1]) : text_arg[1][k] # "U"
     /\ \A k \in 1..Len(text_arg[2]) : text_arg[2][k] # "U"
     /\ text_arg[4].head_bytes + text_arg[4].tail_bytes > 0) =>
        /\ text_out.ok
        /\ IF text_arg[4].discard_successful /\ text_arg[3] = 0
           THEN text_out.value.output = << >> /\ text_out.value.error = << >>
           ELSE IF text_arg[4].truncate
           THEN /\ text_out.value.output =
                      HeadTailOf(text_arg[1], text_arg[4].head_bytes, text_arg[4].tail_bytes)
                /\ text_out.value.error =
                      HeadTailOf(text_arg[2], text_arg[4].head_bytes, text_arg[4].tail_bytes)
           ELSE text_out.value.output = text_arg[1] /\ text_out.value.error = text_arg[2]

\* ------------------------------------------------------------------ C36
\* C36 (Completed is sticky): an action that is Completed stays Completed
\* until a ForceDown covering its interval is handled; after ForceUp has
\* marked a Running or Errored action Completed, neither the late failed
\* ActionCompleted of the execution started earlier nor an already scheduled
\* RetryAction moves it to Errored or Queued.
CompletedSticky ==
    [][\A i \in 1..Len(actions) :
          (actions[i].state = "Completed" /\ actions'[i].state # "Completed") =>
              \E rs \in ForceResources(tasks), iv \in ForceIntervals :
                 /\ BagIn(ForceDown(rs, iv), events)
                 /\ events' = events (-) SetToBag({ForceDown(rs, iv)})
                 /\ tasks[actions[i].task].provides \subseteq rs
                 /\ IntervalSet_has_subset(
                        << align_interval(tasks[actions[i].task].schedule, iv) >>,
                        actions[i].interval)]_vars

\* ------------------------------------------------------------------ C37
\* C37 (Completed implies covered): in every reachable runner state, for
\* every interleaving of completions, ForceUp and ForceDown, each Completed
\* action has its interval covered by current[r] (has_subset holds) for
\* every resource r its task provides.
CompletedCovered ==
    pc \in {"running", "returned"} =>
        \A i \in 1..Len(actions) :
            actions[i].state = "Completed" =>
                \A r \in tasks[actions[i].task].provides :
                    /\ r \in DOMAIN current
                    /\ IntervalSet_has_subset(current[r], actions[i].interval)

\* ------------------------------------------------------------------ C38
\* the generated actions account for all of endState
AllGenerated ==
    \A r \in DOMAIN end_state :
        Covered(end_state[r]) =
            UNION {Points(actions[i].interval) :
                      i \in {j \in 1..Len(actions) : r \in tasks[actions[j].task].provides}}

\* a batch run in which nothing failed and no control message was sent
QuietBatch == ~stay_up /\ hist = {} /\ sent = 0 /\ pc # "new"

\* C38 (completion-order independence): in batch mode with no failing
\* executions, for every order in which the successful ActionCompleted
\* messages of the generated actions arrive, also with several tasks
\* providing the same resource over separate windows, once every action is
\* Completed current compares equal to endState, is_done is true and run has
\* returned.
CompletionOrderIndependent ==
    (/\ QuietBatch
     /\ AllGenerated
     /\ \A i \in 1..Len(actions) : actions[i].state = "Completed") =>
        /\ current = end_state
        /\ is_done(end_state, current)
        /\ pc = "returned"

\* ------------------------------------------------------------------ C39
\* C39 (control messages are handled in send order): the messages one
\* producer sends on the runner channel are handled by the run loop in the
\* order they were sent: of ForceDown followed by ForceUp for the same
\* resources and interval, the ForceUp is handled after the ForceDown, so
\* that the ForceUp is the one that decides current and the actions' states.
HandledInSendOrder ==
    [][("ForceUp" \notin hist /\ "ForceUp" \in hist') => "ForceDown" \in hist]_vars

\* ------------------------------------------------------------------ C40
\* the step in which the future of action id sends an ExecuteTask
SendsExecuteTask(id) == ~up_tasks[id].waiting /\ up_tasks'[id].waiting

\* C40 (quiescence after Stop): once the run loop has handled Stop and
\* returned, no further ExecuteTask message of this runner's actions is sent
\* to the executor; an in-flight check / up / check sequence does not start
\* its next command after the runner has stopped.
QuiescentAfterStop ==
    [][("Stop" \in hist /\ pc = "returned") =>
          \A id \in 1..Len(actions) : ~SendsExecuteTask(id)]_vars

====
